---- MODULE Spec2Model ----
(***************************************************************************)
(* Undertone: the audio-graph control plane.                               *)
(*                                                                         *)
(* The module models the parts of the daemon, each with its own            *)
(* specification over the part's variables (the others stay unchanged):    *)
(*   SpecFactory    the request/response channels between the async        *)
(*                  callers and the PipeWire thread (runtime.rs)           *)
(*   SpecIpc        the per-client IPC tasks and the event loop's request  *)
(*                  branch (ipc/server.rs, daemon/main.rs)                 *)
(*   SpecCommand    request validation and command application             *)
(*                  (daemon/server.rs, daemon/main.rs)                     *)
(*   SpecReconcile  the Reconciler as a pure function of the graph cache   *)
(*                  (pipewire/reconcile.rs, pipewire/graph.rs)             *)
(*   SpecDevice     the Wave:3 device events handled by the event loop     *)
(*                  (daemon/main.rs, pipewire/runtime.rs)                  *)
(*   SpecStartup    main from the PipeWire connection to the event loop    *)
(*                  (daemon/main.rs, pipewire/runtime.rs)                  *)
(*   SpecLifecycle  the daemon state under graph events and commands       *)
(*                  (daemon/main.rs)                                       *)
(*   SpecPwThread   the PipeWire thread publishing graph events while it   *)
(*                  serves factory requests (pipewire/runtime.rs)          *)
(*   SpecSubscribe  event subscriptions and event forwarding               *)
(*                  (ipc/server.rs, daemon/server.rs)                      *)
(*   SpecDiscovery  app discovery in the event loop (daemon/main.rs)       *)
(*   SpecRouter     find_channel_for_app over drawn arguments              *)
(*                  (core/routing.rs)                                      *)
(*   SpecRegex      the per-rule pattern cache across Router calls         *)
(*                  (core/routing.rs)                                      *)
(*   SpecStore      the profile store and the DeleteProfile request        *)
(*                  (db/queries.rs, db/schema.rs, daemon/server.rs)        *)
(*   SpecMirror     the graph cache against a server that reuses ids       *)
(*                  (pipewire/runtime.rs, daemon/main.rs)                  *)
(*   SpecIpcFair    SpecIpc with every ready task step taken eventually    *)
(*   SpecClient     the IPC client's reader task and request calls         *)
(*                  (ipc/client.rs, ui/ipc_handler.rs)                     *)
(*   SpecRegistry   nodes, ports and links coming and going in the         *)
(*                  registry (pipewire/runtime.rs, daemon/main.rs)         *)
(*   SpecVolume     volume and mute requests with filters missing and      *)
(*                  runtime calls failing (daemon/main.rs)                 *)
(*   SpecReadWrite  the request branch between its response and its        *)
(*                  command (daemon/main.rs, ipc/server.rs)                *)
(*   SpecIpcLines   SpecIpc with the invalid lines of the clients          *)
(*                  (ipc/server.rs)                                        *)
(***************************************************************************)
EXTENDS Integers, Sequences, FiniteSets, TLC

VARIABLES
    \* ---- factory channels (runtime.rs) ----
    factory_tx,        \* pipewire::channel of FactoryRequest, caller -> PipeWire thread
    factory_rx,        \* std mpsc of FactoryResponse, PipeWire thread -> caller
    caller,            \* the async caller: [pc, req] ("idle" | "waiting")
    acted,             \* what each call returned: set of [req, kind, resp_for, result]
    next_req,          \* number of factory requests sent so far
    \* ---- IPC server (ipc/server.rs) and the event loop's request branch ----
    task_pc,           \* per client task: "select" | "sending" | "done"
    task_req,          \* the request a task is forwarding while "sending"
    client_eof,        \* handle_client's client_eof
    pending_requests,  \* handle_client's pending_requests
    request_rx,        \* the shared bounded request channel (tasks -> event loop)
    response_rx,       \* per client bounded response channel (event loop -> task)
    event_rx,          \* per client broadcast receiver (events not yet forwarded)
    loop_pc,           \* event loop: "select" | "replying" | "applying" | "stopped"
    loop_reply,        \* the request whose branch the loop is in
    written,           \* per client: the lines written to the socket
    arrived,           \* per client: ids of the well-formed requests, in arrival order
    forwarded,         \* per client: ids of the requests handed to the request channel
    \* ---- command application (daemon/server.rs, daemon/main.rs) ----
    channels,          \* in-memory Vec<ChannelState>, by channel name
    routes,            \* in-memory Vec<RouteRule>
    db_channel_state,  \* the store's channel_state table, by channel name
    db_app_routes,     \* the store's app_routes table
    broadcast,         \* events sent on the IPC broadcast channel
    param_calls,       \* set_node_volume / set_node_mute / route requests issued
    last_request,      \* the request handled last
    last_response,     \* and its response
    cmd_count,         \* number of requests handled so far
    \* ---- reconciler (pipewire/reconcile.rs) over a graph cache ----
    desired,           \* the desired channel list
    cache_nodes,       \* GraphManager.nodes
    cache_links,       \* GraphManager.links
    rec_actions,       \* the action list reconcile returned last
    rec_stage,         \* "drawn" | "reconciled" | "applied" | "rechecked"
    rec_first,         \* the action list of the first reconcile of a run
    \* ---- device events (daemon/main.rs) ----
    state,             \* DaemonState
    device_connected,
    graph_event_rx,    \* the graph-event channel (PipeWire thread -> event loop)
    server_nodes,      \* nodes that exist in the audio server
    server_links,      \* links that exist in the audio server
    graph_nodes,       \* the graph cache's nodes in the device model
    created_nodes,     \* Created-Objects Registry: nodes
    created_links,     \* Created-Objects Registry: links
    link_attempt,      \* what the last Wave3Detected handler did about the links
    device_steps,      \* number of server-side device changes so far
    \* ---- start-up (daemon/main.rs before the event loop) ----
    main_pc,           \* where main is: a start-up phase, "loop" or "stopped"
    boot_failed,       \* the start-up phases in which a factory request failed
    \* ---- the PipeWire thread publishing graph events (pipewire/runtime.rs) ----
    pw_sending,        \* <<e>> while the thread is inside blocking_send(e), else <<>>
    \* ---- event subscriptions (ipc/server.rs, daemon/server.rs) ----
    subscriptions,     \* ClientHandle.subscriptions of each client
    requested,         \* the set each client's acknowledged Subscribe/Unsubscribe established
    delivered,         \* the event types written to each client, in order
    \* ---- the Router (core/routing.rs) ----
    router,            \* one call of find_channel_for_app: its arguments and its result
    \* ---- the per-rule pattern cache (core/routing.rs) ----
    cached_rules,      \* the rule list, each rule with its compiled_regex cell
    warnings,          \* per rule: how many times "Invalid regex pattern" was logged
    evaluations,       \* per rule: how many times RouteRule::matches was called on it
    matched,           \* the rules whose matches returned true so far
    routed,            \* what the last find_channel_for_app call returned
    route_calls,       \* number of find_channel_for_app calls so far
    \* ---- the profile store (undertone-db) ----
    profiles,          \* the rows of table profiles
    profile_channels,  \* the rows of table profile_channels
    profile_routes,    \* the rows of table profile_routes
    store_log,         \* the store operations performed so far, oldest first
    last_saved,        \* <<P>>: the argument of the latest save_profile, else <<>>
    store_reply,       \* what the latest operation returned
    \* ---- the IPC client (ipc/client.rs, ui/ipc_handler.rs) ----
    next_id,           \* IpcClient.next_id
    pending_tx,        \* IpcClient.pending: the ids that have a oneshot sender in the map
    call,              \* the request call of the handler task: its id and where it is
    oneshot_sent,      \* the ids whose oneshot sender was used: tx.send(response)
    socket_in,         \* the lines the daemon wrote that the reader task has not read
    conn_open,         \* the daemon has not closed the connection
    unanswered,        \* the request ids the daemon has received and not answered
    reader_pc,         \* the reader task: "read", "send_event" or "ended"
    client_events,     \* the events queued in the client's event channel
    \* ---- ports and links of the registry (runtime.rs, graph.rs, main.rs) ----
    server_ports,      \* the ports the server has
    graph_ports,       \* GraphManager.ports
    graph_links,       \* GraphManager.links
    removed_globals,   \* history: the globals the server removed, with their type
    registry_steps,    \* the ports and links the server has announced
    \* ---- what the daemon's callers and logs see (daemon/main.rs, ipc/server.rs) ----
    param_result,      \* what the latest set_node_volume / set_node_mute returned
    response_log,      \* history: the responses the event loop has sent, in order
    invalid_lines      \* history: the invalid JSON lines each per-client task has read

factory_vars == <<factory_tx, factory_rx, caller, acted, next_req>>
ipc_vars == <<task_pc, task_req, client_eof, pending_requests, request_rx, response_rx,
              event_rx, loop_pc, loop_reply, written, arrived, forwarded>>
command_vars == <<channels, routes, db_channel_state, db_app_routes, broadcast,
                  param_calls, last_request, last_response, cmd_count>>
reconcile_vars == <<desired, cache_nodes, cache_links, rec_actions, rec_stage, rec_first>>
device_vars == <<state, device_connected, graph_event_rx, server_nodes, server_links,
                 graph_nodes, created_nodes, created_links, link_attempt, device_steps>>
startup_vars == <<main_pc, boot_failed>>
subscribe_vars == <<subscriptions, requested, delivered>>
regex_vars == <<cached_rules, warnings, evaluations, matched, routed, route_calls>>
store_vars == <<profiles, profile_channels, profile_routes, store_log, last_saved,
                store_reply>>
client_vars == <<next_id, pending_tx, call, oneshot_sent, socket_in, conn_open, unanswered,
                 reader_pc, client_events>>
registry_vars == <<server_ports, graph_ports, graph_links, removed_globals, registry_steps>>
observed_vars == <<param_result, response_log, invalid_lines>>
more_vars == <<regex_vars, store_vars, client_vars, registry_vars, observed_vars>>
extra_vars == <<pw_sending, subscribe_vars, router, more_vars>>
later_vars == <<startup_vars, extra_vars>>
vars == <<factory_vars, ipc_vars, command_vars, reconcile_vars, device_vars, later_vars>>

(***************************************************************************)
(* Bounds of the model.                                                    *)
(***************************************************************************)
MaxFactoryRequests == 3

\* mpsc::channel(256) of PipeWireRuntime::spawn, scaled down.
EventChannelCapacity == 2

\* Events broadcast while subscriptions are exercised.
MaxBroadcasts == 2

\* Longest rule list handed to the Router.
MaxRules == 3

\* Nodes the audio server announces while app discovery is exercised.
MaxAnnounced == 1
MaxCachedRules == 2
MaxRouteCalls == 2
MaxStoreOps == 3
MaxClientCalls == 2
MaxDaemonEvents == 2
ClientEventCapacity == 1

(***************************************************************************)
(* Factory channels: PipeWireRuntime's callers and run_pipewire_thread.    *)
(***************************************************************************)
FactoryKinds ==
    {"CreateSink", "CreateVolumeFilter", "CreateLink", "DestroyLink",
     "SetNodeVolume", "SetNodeMute"}

\* The response the factory handler sends when the operation succeeds.
SuccessResponse(kind) ==
    CASE kind = "CreateSink" -> "NodeCreated"
      [] kind = "CreateVolumeFilter" -> "NodeCreated"
      [] kind = "CreateLink" -> "LinkCreated"
      [] kind = "DestroyLink" -> "LinkDestroyed"
      [] kind = "SetNodeVolume" -> "VolumeSet"
      [] kind = "SetNodeMute" -> "MuteSet"

\* DestroyLink is answered LinkDestroyed without doing anything; the others can fail.
CanFail(kind) == kind # "DestroyLink"

\* The match on recv_timeout's result in create_sink, create_link, ...
CallResult(kind, tag) ==
    IF tag = SuccessResponse(kind) THEN "Ok"
    ELSE IF tag = "Error" THEN "Err"
    ELSE "Unexpected response"

FactoryInit ==
    /\ factory_tx = <<>>
    /\ factory_rx = <<>>
    /\ caller = [pc |-> "idle", req |-> 0, kind |-> "none"]
    /\ acted = {}
    /\ next_req = 0

\* create_sink / create_volume_filter / create_link / destroy_link /
\* set_node_volume / set_node_mute: send the request, then wait.
CallerSend(kind) ==
    /\ caller.pc = "idle"
    /\ next_req < MaxFactoryRequests
    /\ next_req' = next_req + 1
    /\ factory_tx' = Append(factory_tx, [seq |-> next_req + 1, kind |-> kind])
    /\ caller' = [pc |-> "waiting", req |-> next_req + 1, kind |-> kind]
    /\ UNCHANGED <<factory_rx, acted>>

\* recv_timeout returns the response at the head of the shared response channel.
CallerRecv ==
    /\ caller.pc = "waiting"
    /\ factory_rx # <<>>
    /\ LET resp == Head(factory_rx)
       IN acted' = acted \cup {[req |-> caller.req, kind |-> caller.kind,
                                 resp_for |-> resp.for,
                                 result |-> CallResult(caller.kind, resp.tag)]}
    /\ factory_rx' = Tail(factory_rx)
    /\ caller' = [pc |-> "idle", req |-> 0, kind |-> "none"]
    /\ UNCHANGED <<factory_tx, next_req>>

\* recv_timeout gives up after 5 s with nothing in the response channel.
CallerTimeout ==
    /\ caller.pc = "waiting"
    /\ factory_rx = <<>>
    /\ acted' = acted \cup {[req |-> caller.req, kind |-> caller.kind,
                              resp_for |-> 0, result |-> "Timeout"]}
    /\ caller' = [pc |-> "idle", req |-> 0, kind |-> "none"]
    /\ UNCHANGED <<factory_tx, factory_rx, next_req>>

\* The handler attached to the PipeWire loop: one request, one response.
RuntimeHandle ==
    /\ factory_tx # <<>>
    /\ LET r == Head(factory_tx)
       IN \E ok \in BOOLEAN :
            /\ (~ok) => CanFail(r.kind)
            /\ factory_rx' = Append(factory_rx,
                   [for |-> r.seq,
                    tag |-> IF ok THEN SuccessResponse(r.kind) ELSE "Error"])
    /\ factory_tx' = Tail(factory_tx)
    /\ UNCHANGED <<caller, acted, next_req>>

FactoryNext ==
    \/ \E kind \in FactoryKinds : CallerSend(kind)
    \/ CallerRecv
    \/ CallerTimeout
    \/ RuntimeHandle

(***************************************************************************)
(* IPC server: one task per client (IpcServer::handle_client) and the      *)
(* event loop's request branch (main).  The two mpsc channels are bounded  *)
(* (64 requests, 16 responses per client in the source); the model keeps   *)
(* them bounded and scales the capacities down.                            *)
(***************************************************************************)
NumClients == 2
MaxRequests == 4
MaxEvents == 1
RequestChannelCapacity == 1
ResponseChannelCapacity == 1

Clients == 1..NumClients

\* The request methods the IPC model distinguishes: a query and the command that
\* ends the event loop.
IpcMethods == {"GetState", "Shutdown"}

ResponseIds(c) ==
    LET resp == SelectSeq(written[c], LAMBDA l : l.kind = "response")
    IN [i \in 1..Len(resp) |-> resp[i].id]

IsPrefix(s, t) == Len(s) <= Len(t) /\ \A i \in 1..Len(s) : s[i] = t[i]

NoRequest == [client |-> 0, id |-> 0, method |-> "none"]

\* Request lines read so far, over all clients.
RECURSIVE SumLen(_, _)
SumLen(f, cs) ==
    IF cs = {} THEN 0
    ELSE LET c == CHOOSE x \in cs : TRUE IN Len(f[c]) + SumLen(f, cs \ {c})

RequestsRead == SumLen(arrived, Clients)

\* Events a client has been sent so far.
EventsSent(c) ==
    Len(event_rx[c]) + Len(SelectSeq(written[c], LAMBDA l : l.kind = "event"))

\* u64::saturating_sub(1)
SaturatingDec(n) == IF n = 0 THEN 0 ELSE n - 1

\* "exit the per-client task": both at EOF and nothing outstanding.
ExitAtEofIgnoringPending(eof, pending) == eof

ExitNow(eof, pending) == eof /\ pending = 0

IpcInit ==
    /\ task_pc = [c \in Clients |-> "select"]
    /\ task_req = [c \in Clients |-> NoRequest]
    /\ client_eof = [c \in Clients |-> FALSE]
    /\ pending_requests = [c \in Clients |-> 0]
    /\ request_rx = <<>>
    /\ response_rx = [c \in Clients |-> <<>>]
    /\ event_rx = [c \in Clients |-> <<>>]
    /\ loop_pc = "select"
    /\ loop_reply = NoRequest
    /\ written = [c \in Clients |-> <<>>]
    /\ arrived = [c \in Clients |-> <<>>]
    /\ forwarded = [c \in Clients |-> <<>>]

\* request_tx.send(..).await: completes when the channel has room; fails at once
\* when the event loop has dropped the receiver.
ForwardRequest(c, req) ==
    IF loop_pc = "stopped"
    THEN /\ task_pc' = [task_pc EXCEPT ![c] = "select"]
         /\ task_req' = [task_req EXCEPT ![c] = NoRequest]
         /\ UNCHANGED <<request_rx, forwarded>>
    ELSE IF Len(request_rx) < RequestChannelCapacity
    THEN /\ request_rx' = Append(request_rx, req)
         /\ forwarded' = [forwarded EXCEPT ![c] = Append(@, req.id)]
         /\ task_pc' = [task_pc EXCEPT ![c] = "select"]
         /\ task_req' = [task_req EXCEPT ![c] = NoRequest]
    ELSE /\ task_pc' = [task_pc EXCEPT ![c] = "sending"]
         /\ task_req' = [task_req EXCEPT ![c] = req]
         /\ UNCHANGED <<request_rx, forwarded>>

\* read_line returned a well-formed request line.
TaskReadRequest(c, method) ==
    /\ task_pc[c] = "select"
    /\ ~client_eof[c]
    /\ RequestsRead < MaxRequests
    /\ LET req == [client |-> c, id |-> Len(arrived[c]) + 1, method |-> method]
       IN /\ arrived' = [arrived EXCEPT ![c] = Append(@, req.id)]
          /\ pending_requests' = [pending_requests EXCEPT ![c] = @ + 1]
          /\ ForwardRequest(c, req)
    /\ UNCHANGED <<client_eof, response_rx, event_rx, loop_pc, loop_reply, written>>

\* The task was suspended in request_tx.send and the channel has room again (or
\* the receiver is gone).
TaskSendResumes(c) ==
    /\ task_pc[c] = "sending"
    /\ loop_pc = "stopped" \/ Len(request_rx) < RequestChannelCapacity
    /\ ForwardRequest(c, task_req[c])
    /\ UNCHANGED <<client_eof, pending_requests, response_rx, event_rx, loop_pc,
                   loop_reply, written, arrived>>

\* read_line returned a line that is not a Request: warn, clear the line.
TaskReadInvalid(c) ==
    /\ task_pc[c] = "select"
    /\ ~client_eof[c]
    /\ UNCHANGED ipc_vars

\* read_line returned Ok(0).
TaskReadEof(c) ==
    /\ task_pc[c] = "select"
    /\ ~client_eof[c]
    /\ client_eof' = [client_eof EXCEPT ![c] = TRUE]
    /\ task_pc' = [task_pc EXCEPT ![c] =
                     IF ExitNow(TRUE, pending_requests[c]) THEN "done" ELSE "select"]
    /\ UNCHANGED <<task_req, pending_requests, request_rx, response_rx, event_rx,
                   loop_pc, loop_reply, written, arrived, forwarded>>

\* response_rx.recv() returned a response: write it, flush, count it.
TaskWriteResponse(c) ==
    /\ task_pc[c] = "select"
    /\ response_rx[c] # <<>>
    /\ written' = [written EXCEPT ![c] =
                     Append(@, [kind |-> "response", id |-> Head(response_rx[c]).id])]
    /\ response_rx' = [response_rx EXCEPT ![c] = Tail(@)]
    /\ pending_requests' = [pending_requests EXCEPT ![c] = SaturatingDec(@)]
    /\ task_pc' = [task_pc EXCEPT ![c] =
                     IF ExitNow(client_eof[c], SaturatingDec(pending_requests[c]))
                     THEN "done" ELSE "select"]
    /\ UNCHANGED <<task_req, client_eof, request_rx, event_rx, loop_pc, loop_reply,
                   arrived, forwarded>>

\* event_rx.recv() returned an event: the subscription list of a client is
\* created empty and never changed, so every event is written.
TaskForwardEvent(c) ==
    /\ task_pc[c] = "select"
    /\ ~client_eof[c]
    /\ event_rx[c] # <<>>
    /\ written' = [written EXCEPT ![c] =
                     Append(@, [kind |-> "event", id |-> 0])]
    /\ event_rx' = [event_rx EXCEPT ![c] = Tail(@)]
    /\ UNCHANGED <<task_pc, task_req, client_eof, pending_requests, request_rx,
                   response_rx, loop_pc, loop_reply, arrived, forwarded>>

\* What the loop does with the command of a request once the response is sent.
AfterReply(method) == IF method = "Shutdown" THEN "stopped" ELSE "select"

\* response_tx.send(response).await: completes when the client's channel has
\* room, fails at once (ignored) when the task has dropped its receiver.
SendReply(reply) ==
    IF task_pc[reply.client] = "done"
    THEN /\ loop_pc' = AfterReply(reply.method)
         /\ loop_reply' = NoRequest
         /\ UNCHANGED response_rx
    ELSE IF Len(response_rx[reply.client]) < ResponseChannelCapacity
    THEN /\ response_rx' = [response_rx EXCEPT ![reply.client] =
                              Append(@, [id |-> reply.id])]
         /\ loop_pc' = AfterReply(reply.method)
         /\ loop_reply' = NoRequest
    ELSE /\ loop_pc' = "replying"
         /\ loop_reply' = reply
         /\ UNCHANGED response_rx

\* The select branch on request_rx.recv(): handle the request, send the reply,
\* apply the command.
LoopHandleRequest ==
    /\ loop_pc = "select"
    /\ request_rx # <<>>
    /\ request_rx' = Tail(request_rx)
    /\ SendReply(Head(request_rx))
    /\ UNCHANGED <<task_pc, task_req, client_eof, pending_requests, event_rx, written,
                   arrived, forwarded>>

\* The loop was suspended in response_tx.send.
LoopReplyResumes ==
    /\ loop_pc = "replying"
    /\ \/ task_pc[loop_reply.client] = "done"
       \/ Len(response_rx[loop_reply.client]) < ResponseChannelCapacity
    /\ SendReply(loop_reply)
    /\ UNCHANGED <<task_pc, task_req, client_eof, pending_requests, request_rx,
                   event_rx, written, arrived, forwarded>>

\* The select branch on graph_event_rx.recv() for an event the loop turns into
\* an IPC event: event_tx.send reaches every live receiver.
LoopGraphEvent ==
    /\ loop_pc = "select"
    /\ \A c \in Clients : EventsSent(c) < MaxEvents
    /\ event_rx' = [c \in Clients |->
                      IF task_pc[c] = "done" THEN event_rx[c]
                      ELSE Append(event_rx[c], "device_connected")]
    /\ UNCHANGED <<task_pc, task_req, client_eof, pending_requests, request_rx,
                   response_rx, loop_pc, loop_reply, written, arrived, forwarded>>

IpcNext ==
    \/ \E c \in Clients, m \in IpcMethods : TaskReadRequest(c, m)
    \/ \E c \in Clients : TaskSendResumes(c)
    \/ \E c \in Clients : TaskReadInvalid(c)
    \/ \E c \in Clients : TaskReadEof(c)
    \/ \E c \in Clients : TaskWriteResponse(c)
    \/ \E c \in Clients : TaskForwardEvent(c)
    \/ LoopHandleRequest
    \/ LoopReplyResumes
    \/ LoopGraphEvent


(***************************************************************************)
(* Requests and commands: handle_request (daemon/server.rs) validates a    *)
(* request against the state snapshot and returns the response and an      *)
(* optional command; the event loop (daemon/main.rs) sends the response    *)
(* and applies the command.  Volumes are f32 in the source; the model      *)
(* counts them in tenths, VolumeOne standing for 1.0.                      *)
(***************************************************************************)
VolumeOne == 10
MaxCommands == 3

\* The channels the store is seeded with that the model keeps, and a name
\* that is no channel.
ModelChannelList == <<"system", "music">>
ModelChannels == {ModelChannelList[i] : i \in 1..Len(ModelChannelList)}
ChannelArgs == ModelChannels \cup {"unknown"}
Mixes == {"stream", "monitor"}
VolumeArgs == {-5, 0, 6, 10, 15}
Patterns == {"spotify", "mpv"}

\* Node names are kept as their '-'-separated parts, so that starts_with
\* stays a prefix test.
NodeName(c) == <<"ut", "ch", c>>
StreamVolNodeName(c) == <<"ut", "ch", c, "stream", "vol">>
MonitorVolNodeName(c) == <<"ut", "ch", c, "monitor", "vol">>
StreamMixName == <<"ut", "stream", "mix">>
StreamOutName == <<"ut", "stream", "out">>
MonitorMixName == <<"ut", "monitor", "mix">>
Wave3SinkName == <<"wave3", "sink">>
Wave3SourceName == <<"wave3", "source">>

\* format!("ut-ch-{channel}-stream-vol") / format!("ut-ch-{channel}-monitor-vol")
FilterName(c, mix) ==
    IF mix = "stream" THEN StreamVolNodeName(c) ELSE MonitorVolNodeName(c)

\* f32::clamp(0.0, 1.0)
NoClamp(v) == v

Clamp(v) == IF v < 0 THEN 0 ELSE IF v > VolumeOne THEN VolumeOne ELSE v

\* channel_exists(state, channel)
AnyChannelExists(chs, c) == TRUE

channel_exists(chs, c) == c \in DOMAIN chs

NoCommand == [type |-> "None"]

channel_not_found(c) ==
    [response |-> [ok |-> FALSE, code |-> 404,
                   message |-> <<"Channel not found: ", c>>],
     command |-> NoCommand]

Ok(body) == [ok |-> TRUE, body |-> body]

\* handle_request: the response and the optional command of a request.
handle_request(method, chs) ==
    CASE method.type = "GetChannel" ->
           IF method.name \in DOMAIN chs
           THEN [response |-> Ok(chs[method.name]), command |-> NoCommand]
           ELSE channel_not_found(method.name)
      [] method.type = "SetChannelVolume" ->
           IF ~channel_exists(chs, method.channel)
           THEN channel_not_found(method.channel)
           ELSE [response |-> Ok([success |-> TRUE, volume |-> Clamp(method.volume)]),
                 command |-> [type |-> "SetChannelVolume", channel |-> method.channel,
                              mix |-> method.mix, volume |-> Clamp(method.volume)]]
      [] method.type = "SetChannelMute" ->
           IF ~channel_exists(chs, method.channel)
           THEN channel_not_found(method.channel)
           ELSE [response |-> Ok([success |-> TRUE, muted |-> method.muted]),
                 command |-> [type |-> "SetChannelMute", channel |-> method.channel,
                              mix |-> method.mix, muted |-> method.muted]]
      [] method.type = "SetAppRoute" ->
           IF ~channel_exists(chs, method.channel)
           THEN channel_not_found(method.channel)
           ELSE [response |-> Ok([success |-> TRUE]),
                 command |-> [type |-> "SetAppRoute",
                              app_pattern |-> method.app_pattern,
                              channel |-> method.channel]]
      [] method.type = "RemoveAppRoute" ->
           [response |-> Ok([success |-> TRUE]),
            command |-> [type |-> "RemoveAppRoute", app_pattern |-> method.app_pattern]]

Methods ==
    [type : {"GetChannel"}, name : ChannelArgs]
    \cup [type : {"SetChannelVolume"}, channel : ChannelArgs, mix : Mixes,
          volume : VolumeArgs]
    \cup [type : {"SetChannelMute"}, channel : ChannelArgs, mix : Mixes,
          muted : BOOLEAN]
    \cup [type : {"SetAppRoute"}, app_pattern : Patterns, channel : ChannelArgs]
    \cup [type : {"RemoveAppRoute"}, app_pattern : Patterns]

\* ChannelState::new / load_channels over the seeded channel_state rows.
SeedChannelState ==
    [stream_volume |-> VolumeOne, stream_muted |-> FALSE,
     monitor_volume |-> VolumeOne, monitor_muted |-> FALSE]

\* The seeded rule of the store that targets a modelled channel.
SeedRoutes ==
    <<[pattern |-> "spotify", pattern_type |-> "exact", channel |-> "music",
       priority |-> 100]>>

\* The nodes startup records in the Created-Objects Registry when every
\* factory request succeeds: name -> id.
\* (create_channel_sinks, create_mix_nodes, create_channel_volume_filters, in
\* this order; the audio server hands out the ids.)
StartupSequence ==
    [i \in 1..Len(ModelChannelList) |-> NodeName(ModelChannelList[i])]
    \o <<StreamMixName, MonitorMixName>>
    \o [i \in 1..(2 * Len(ModelChannelList)) |->
          IF i % 2 = 1 THEN StreamVolNodeName(ModelChannelList[(i + 1) \div 2])
          ELSE MonitorVolNodeName(ModelChannelList[i \div 2])]

StartupNodeNames == {StartupSequence[i] : i \in 1..Len(StartupSequence)}

StartupRegistry ==
    [n \in StartupNodeNames |-> CHOOSE i \in 1..Len(StartupSequence) : StartupSequence[i] = n]


\* The audio clients the graph cache holds while commands are applied.
ActiveClients == {[id |-> 50, name |-> "spotify"]}

CommandInit ==
    /\ channels = [c \in ModelChannels |-> SeedChannelState]
    /\ db_channel_state = [c \in ModelChannels |-> SeedChannelState]
    /\ routes = SeedRoutes
    /\ db_app_routes = {SeedRoutes[i] : i \in 1..Len(SeedRoutes)}
    /\ broadcast = <<>>
    /\ param_calls = <<>>
    /\ last_request = [type |-> "None"]
    /\ last_response = Ok([success |-> FALSE])
    /\ cmd_count = 0

\* Both volumes of the channel take the value.
WithBothVolumes(ch, mix, v) == [ch EXCEPT !.stream_volume = v, !.monitor_volume = v]

WithVolume(ch, mix, v) ==
    IF mix = "stream" THEN [ch EXCEPT !.stream_volume = v]
    ELSE [ch EXCEPT !.monitor_volume = v]

\* The mute flags stay as they are.
KeepMute(ch, mix, m) == ch

WithMute(ch, mix, m) ==
    IF mix = "stream" THEN [ch EXCEPT !.stream_muted = m]
    ELSE [ch EXCEPT !.monitor_muted = m]

\* Every rule is kept, those of the pattern included.
RetainAll(rs, pattern) == rs

\* routes.retain(|r| r.pattern != app_pattern)
Retain(rs, pattern) == SelectSeq(rs, LAMBDA r : r.pattern # pattern)

\* RouteRule::matches for an Exact rule, against the client's names.
ExactMatches(rule, client) == rule.pattern = client.name

\* The requests the SetAppRoute branch issues for the clients the rule matches.
RerouteCalls(rule) ==
    LET hit == {cl \in ActiveClients : ExactMatches(rule, cl)}
    IN IF hit = {} THEN <<>>
       ELSE <<[op |-> "RouteApp", targets |-> {cl.id : cl \in hit},
               channel |-> rule.channel]>>

\* The command branch of the event loop (main.rs): in-memory update, store
\* write, runtime request, IPC event.
ApplyCommand(cmd) ==
    \/ /\ cmd.type = "None"
       /\ UNCHANGED <<channels, routes, db_channel_state, db_app_routes, broadcast,
                      param_calls>>
    \/ /\ cmd.type = "SetChannelVolume"
       /\ IF cmd.channel \in DOMAIN channels
          THEN /\ channels' = [channels EXCEPT ![cmd.channel] =
                                 WithVolume(@, cmd.mix, cmd.volume)]
               /\ param_calls' =
                    IF FilterName(cmd.channel, cmd.mix) \in DOMAIN created_nodes
                    THEN Append(param_calls,
                                [op |-> "SetNodeVolume",
                                 node_id |-> created_nodes[FilterName(cmd.channel, cmd.mix)],
                                 volume |-> Clamp(cmd.volume)])
                    ELSE param_calls
               /\ broadcast' = Append(broadcast,
                                [event |-> "channel_volume_changed",
                                 channel |-> cmd.channel, mix |-> cmd.mix,
                                 volume |-> cmd.volume])
          ELSE UNCHANGED <<channels, param_calls, broadcast>>
       /\ UNCHANGED <<routes, db_channel_state, db_app_routes>>
    \/ /\ cmd.type = "SetChannelMute"
       /\ IF cmd.channel \in DOMAIN channels
          THEN /\ channels' = [channels EXCEPT ![cmd.channel] =
                                 WithMute(@, cmd.mix, cmd.muted)]
               /\ param_calls' =
                    IF FilterName(cmd.channel, cmd.mix) \in DOMAIN created_nodes
                    THEN Append(param_calls,
                                [op |-> "SetNodeMute",
                                 node_id |-> created_nodes[FilterName(cmd.channel, cmd.mix)],
                                 muted |-> cmd.muted])
                    ELSE param_calls
               /\ broadcast' = Append(broadcast,
                                [event |-> "channel_mute_changed",
                                 channel |-> cmd.channel, mix |-> cmd.mix,
                                 muted |-> cmd.muted])
          ELSE UNCHANGED <<channels, param_calls, broadcast>>
       /\ UNCHANGED <<routes, db_channel_state, db_app_routes>>
    \/ /\ cmd.type = "SetAppRoute"
       /\ LET rule == [pattern |-> cmd.app_pattern, pattern_type |-> "exact",
                       channel |-> cmd.channel, priority |-> 100]
          IN /\ routes' = Append(Retain(routes, cmd.app_pattern), rule)
             \* save_route: INSERT .. ON CONFLICT(pattern) DO UPDATE
             /\ db_app_routes' =
                  {r \in db_app_routes : r.pattern # cmd.app_pattern} \cup {rule}
             /\ param_calls' = param_calls \o RerouteCalls(rule)
       /\ UNCHANGED <<channels, db_channel_state, broadcast>>
    \/ /\ cmd.type = "RemoveAppRoute"
       /\ routes' = Retain(routes, cmd.app_pattern)
       /\ db_app_routes' = {r \in db_app_routes : r.pattern # cmd.app_pattern}
       /\ UNCHANGED <<channels, db_channel_state, broadcast, param_calls>>

\* The request branch of the event loop for one request: snapshot,
\* handle_request, response, command.
HandleIpcRequest(method) ==
    /\ cmd_count < MaxCommands
    /\ cmd_count' = cmd_count + 1
    /\ last_request' = method
    /\ LET r == handle_request(method, channels)
       IN /\ last_response' = r.response
          /\ ApplyCommand(r.command)

CommandNext == \E method \in Methods : HandleIpcRequest(method)

(***************************************************************************)
(* Reconciler (pipewire/reconcile.rs) over the graph cache                 *)
(* (pipewire/graph.rs).  A cached node is [id, name, managed, elgato_sink] *)
(* (elgato_sink: an Audio/Sink the fallback of find_wave3_sink accepts); a *)
(* cached link is [id, output_node, input_node, side, managed], side       *)
(* standing for the FL or FR port pair the link joins.                     *)
(***************************************************************************)
ElgatoSinkName == <<"alsa_output", "Elgato", "Wave:3">>
ClientNodeName == <<"firefox">>

\* The channel lists the reconciler is run with.
DesiredLists == {<<>>, <<"music">>}

Sides == {"FL", "FR"}

\* GraphManager::get_node_by_name: the cached nodes of that name.
get_node_by_name(nodes, name) == {n \in nodes : n.name = name}

\* GraphManager::has_link: any link between the two nodes, whatever its ports.
has_link(links, output_node, input_node) ==
    \E l \in links : l.output_node = output_node /\ l.input_node = input_node

\* GraphManager::find_wave3_sink: by name, else by device properties.
find_wave3_sink(nodes) ==
    IF get_node_by_name(nodes, Wave3SinkName) # {}
    THEN get_node_by_name(nodes, Wave3SinkName)
    ELSE {n \in nodes : n.elgato_sink}

CreateSinkAction(name) == [type |-> "CreateSink", name |-> name]

CreateLinkAction(out, in, side) ==
    [type |-> "CreateLink", output_node |-> out, output_port |-> <<"monitor", side>>,
     input_node |-> in, input_port |-> <<"playback", side>>]

\* The two CreateLink actions pushed when has_link finds no link of a pair.
LinkPairIfMissing(nodes, links, out, in) ==
    IF /\ get_node_by_name(nodes, out) # {}
       /\ get_node_by_name(nodes, in) # {}
       /\ \E o \in get_node_by_name(nodes, out), i \in get_node_by_name(nodes, in) :
              ~has_link(links, o.id, i.id)
    THEN <<CreateLinkAction(out, in, "FL"), CreateLinkAction(out, in, "FR")>>
    ELSE <<>>

MissingSink(nodes, name) ==
    IF get_node_by_name(nodes, name) = {} THEN <<CreateSinkAction(name)>> ELSE <<>>

\* for channel in channels: the channel sink check.
MissingChannelSinks(chs, nodes) ==
    LET f[i \in 0..Len(chs)] ==
            IF i = 0 THEN <<>> ELSE f[i - 1] \o MissingSink(nodes, NodeName(chs[i]))
    IN f[Len(chs)]

\* for channel in channels: the two volume filter checks.
MissingFilters(chs, nodes) ==
    LET f[i \in 0..Len(chs)] ==
            IF i = 0 THEN <<>>
            ELSE f[i - 1] \o MissingSink(nodes, StreamVolNodeName(chs[i]))
                         \o MissingSink(nodes, MonitorVolNodeName(chs[i]))
    IN f[Len(chs)]

\* for channel in channels: the two filter -> mix link checks.
MissingFilterLinks(chs, nodes, links) ==
    LET f[i \in 0..Len(chs)] ==
            IF i = 0 THEN <<>>
            ELSE f[i - 1]
                 \o LinkPairIfMissing(nodes, links, StreamVolNodeName(chs[i]), StreamMixName)
                 \o LinkPairIfMissing(nodes, links, MonitorVolNodeName(chs[i]),
                                      MonitorMixName)
    IN f[Len(chs)]

\* A reconciler that also removes every cached node it does not expect.
reconcile_and_sweep(chs, nodes, links) ==
    MissingChannelSinks(chs, nodes)
    \o LET expected == {NodeName(chs[i]) : i \in 1..Len(chs)}
                       \cup {StreamMixName, StreamOutName, MonitorMixName}
           extra == {n \in nodes : n.name \notin expected}
           ids == {n.id : n \in extra}
           f[k \in 0..30] ==
               IF k = 0 THEN <<>>
               ELSE IF k \in ids THEN Append(f[k - 1], [type |-> "DestroyNode", id |-> k])
               ELSE f[k - 1]
       IN f[30]

\* A reconciler that runs its link checks before its node checks.
reconcile_links_first(chs, nodes, links) ==
    MissingFilterLinks(chs, nodes, links)
    \o LinkPairIfMissing(nodes, links, StreamMixName, StreamOutName)
    \o MissingChannelSinks(chs, nodes)
    \o MissingSink(nodes, StreamMixName)
    \o MissingSink(nodes, StreamOutName)
    \o MissingSink(nodes, MonitorMixName)
    \o MissingFilters(chs, nodes)

\* Reconciler::reconcile
reconcile(chs, nodes, links) ==
    MissingChannelSinks(chs, nodes)
    \o MissingSink(nodes, StreamMixName)
    \o MissingSink(nodes, StreamOutName)
    \o MissingSink(nodes, MonitorMixName)
    \o MissingFilters(chs, nodes)
    \o (IF find_wave3_sink(nodes) = {}
        THEN <<[type |-> "Warn",
                message |-> "Wave:3 sink not found - device may be disconnected"]>>
        ELSE <<>>)
    \o MissingFilterLinks(chs, nodes, links)
    \o LinkPairIfMissing(nodes, links, StreamMixName, StreamOutName)
    \o (IF find_wave3_sink(nodes) # {}
        THEN LinkPairIfMissing(nodes, links, MonitorMixName,
                               (CHOOSE n \in find_wave3_sink(nodes) : TRUE).name)
        ELSE <<>>)

\* Reconciler::is_healthy
is_healthy(chs, nodes, links) == reconcile(chs, nodes, links) = <<>>

\* The node names the drawn graphs are built from; a node's id is its place
\* in this list.
CandidateNames ==
    <<NodeName("music"), StreamVolNodeName("music"), MonitorVolNodeName("music"),
      StreamMixName, StreamOutName, MonitorMixName, Wave3SinkName, ElgatoSinkName,
      ClientNodeName>>

NodeIdOf(name) == CHOOSE i \in 1..Len(CandidateNames) : CandidateNames[i] = name

\* handle_global: is_undertone_managed is name.starts_with("ut-").
NodeRecord(name) ==
    [id |-> NodeIdOf(name), name |-> name, managed |-> name[1] = "ut",
     elgato_sink |-> name = ElgatoSinkName]

LinkRecord(out, in, side) ==
    [id |-> 100 * out + 10 * in + (IF side = "FL" THEN 1 ELSE 2),
     output_node |-> out, input_node |-> in, side |-> side,
     managed |-> out # NodeIdOf(ClientNodeName)]

\* The node pairs of the topology of section "links", and one pair joining a
\* client stream to the channel sink.
TopologyPairs(chs) ==
    UNION {{<<NodeName(chs[i]), StreamVolNodeName(chs[i])>>,
            <<StreamVolNodeName(chs[i]), StreamMixName>>,
            <<NodeName(chs[i]), MonitorVolNodeName(chs[i])>>,
            <<MonitorVolNodeName(chs[i]), MonitorMixName>>} : i \in 1..Len(chs)}
    \cup {<<StreamMixName, StreamOutName>>}

DevicePairs == {<<MonitorMixName, Wave3SinkName>>, <<MonitorMixName, ElgatoSinkName>>}

DrawnPairs ==
    TopologyPairs(<<"music">>) \cup DevicePairs \cup {<<ClientNodeName, NodeName("music")>>}

\* The links a drawn graph may hold between the nodes it holds.
PossibleLinks(nodes) ==
    {LinkRecord(NodeIdOf(p[1]), NodeIdOf(p[2]), s) :
        p \in {q \in DrawnPairs : /\ get_node_by_name(nodes, q[1]) # {}
                                  /\ get_node_by_name(nodes, q[2]) # {}},
        s \in Sides}

\* GraphManager::add_node / add_link: insert by id.
add_node(nodes, n) == {m \in nodes : m.id # n.id} \cup {n}
add_link(links, l) == {m \in links : m.id # l.id} \cup {l}

PortSide(port) == port[2]

\* The graph after every action of the list has been applied with success:
\* a CreateSink adds the node, a CreateLink the link between the two named
\* nodes, a Warn nothing.
ApplyNodes(nodes, actions) ==
    LET f[i \in 0..Len(actions)] ==
            IF i = 0 THEN nodes
            ELSE IF actions[i].type = "CreateSink"
                 THEN add_node(f[i - 1], NodeRecord(actions[i].name))
                 ELSE f[i - 1]
    IN f[Len(actions)]

ApplyLinks(nodes, links, actions) ==
    LET f[i \in 0..Len(actions)] ==
            IF i = 0 THEN links
            ELSE IF actions[i].type = "CreateLink"
                 THEN add_link(f[i - 1],
                               LinkRecord(NodeIdOf(actions[i].output_node),
                                          NodeIdOf(actions[i].input_node),
                                          PortSide(actions[i].output_port)))
                 ELSE f[i - 1]
    IN f[Len(actions)]

ReconcileInit ==
    /\ desired \in DesiredLists
    /\ \E names \in SUBSET {CandidateNames[i] : i \in 1..Len(CandidateNames)} :
           cache_nodes = {NodeRecord(n) : n \in names}
    /\ cache_links \in {ls \in SUBSET PossibleLinks(cache_nodes) :
                          \A l \in ls : l.side = "FR" => (l.id - 1) \in {m.id : m \in ls}}
    /\ rec_actions = <<>>
    /\ rec_first = <<>>
    /\ rec_stage = "drawn"

\* let actions = reconciler.reconcile(&channels)
RunReconcile ==
    /\ rec_stage = "drawn"
    /\ rec_actions' = reconcile(desired, cache_nodes, cache_links)
    /\ rec_first' = rec_actions'
    /\ rec_stage' = "reconciled"
    /\ UNCHANGED <<desired, cache_nodes, cache_links>>

\* Every action of the list is applied and shows up in the cache.
ApplyReconcileActions ==
    /\ rec_stage = "reconciled"
    /\ cache_nodes' = ApplyNodes(cache_nodes, rec_actions)
    /\ cache_links' = ApplyLinks(cache_nodes', cache_links, rec_actions)
    /\ rec_stage' = "applied"
    /\ UNCHANGED <<desired, rec_actions, rec_first>>

\* The reconciler is run on the graph the actions produced.
RunReconcileAgain ==
    /\ rec_stage = "applied"
    /\ rec_actions' = reconcile(desired, cache_nodes, cache_links)
    /\ rec_stage' = "rechecked"
    /\ UNCHANGED <<desired, cache_nodes, cache_links, rec_first>>

ReconcileNext ==
    \/ RunReconcile
    \/ ApplyReconcileActions
    \/ RunReconcileAgain

(***************************************************************************)
(* The target device and the event loop's graph-event branch               *)
(* (daemon/main.rs), with the registry listener of the PipeWire thread     *)
(* (pipewire/runtime.rs handle_global / handle_global_remove).  The device *)
(* shows up as two nodes, "wave3-source" and "wave3-sink".  Port and link  *)
(* events, which the loop only logs, are left out.                         *)
(***************************************************************************)
MaxDeviceSteps == 6

DeviceNodeNames == {Wave3SourceName, Wave3SinkName}

\* The keys main.rs records the two headphone links under.
MonitorLinkKey(side) == <<"monitor-mix->wave3-sink", side>>

GraphEventOf(type, id, name) == [type |-> type, id |-> id, name |-> name]

\* GraphManager::get_created_node_id
get_created_node_id(registry, name) ==
    IF name \in DOMAIN registry THEN {registry[name]} ELSE {}

\* GraphManager::record_created_link: HashMap insert under the key.
record_created_link(recorded, key, id) ==
    {e \in recorded : e.key # key} \cup {[key |-> key, id |-> id]}

\* get_created_links().contains_key(key)
contains_key(recorded, key) == \E e \in recorded : e.key = key

\* A remove_node that leaves the cache as it is.
remove_nothing(nodes, id) == nodes

\* A cache in which no id is ever found.
get_node_none(nodes, id) == {}

\* GraphManager::get_node
get_node(nodes, id) == {n \in nodes : n.id = id}

\* GraphManager::remove_node
remove_node(nodes, id) == {n \in nodes : n.id # id}

ServerLink(id, out, in, side) ==
    [id |-> id, output_node |-> out, input_node |-> in, side |-> side]

DeviceInit ==
    /\ state = "Running"
    /\ device_connected = FALSE
    /\ graph_event_rx = <<>>
    /\ server_nodes = {}
    /\ server_links = {}
    /\ graph_nodes = {}
    /\ created_nodes = StartupRegistry
    /\ created_links = {}
    /\ link_attempt = "none"
    /\ device_steps = 0

\* A device node is announced by the server; handle_global caches it and
\* queues NodeAdded, and Wave3Detected when the node is "wave3-source".
ServerAddNode(name) ==
    /\ device_steps < MaxDeviceSteps
    /\ \A n \in server_nodes : n.name # name
    /\ LET n == [id |-> 20 + device_steps, name |-> name]
       IN /\ server_nodes' = server_nodes \cup {n}
          /\ graph_nodes' = add_node(graph_nodes, n)
          /\ graph_event_rx' =
                 graph_event_rx \o <<GraphEventOf("NodeAdded", n.id, name)>>
                 \o (IF name = Wave3SourceName
                     THEN <<GraphEventOf("Wave3Detected", n.id, name)>>
                     ELSE <<>>)
    /\ device_steps' = device_steps + 1
    /\ UNCHANGED <<state, device_connected, server_links, created_nodes,
                   created_links, link_attempt>>

\* A device node goes away; the server drops its links, and
\* handle_global_remove queues Wave3Removed (for "wave3-source") and
\* NodeRemoved.  The cache is only updated when the loop handles NodeRemoved.
ServerRemoveNode(name) ==
    /\ device_steps < MaxDeviceSteps
    /\ \E n \in server_nodes :
        /\ n.name = name
        /\ server_nodes' = server_nodes \ {n}
        /\ server_links' =
               {l \in server_links : l.output_node # n.id /\ l.input_node # n.id}
        /\ graph_event_rx' =
               graph_event_rx
               \o (IF name = Wave3SourceName
                   THEN <<GraphEventOf("Wave3Removed", n.id, name)>>
                   ELSE <<>>)
               \o <<GraphEventOf("NodeRemoved", n.id, name)>>
    /\ device_steps' = device_steps + 1
    /\ UNCHANGED <<state, device_connected, graph_nodes, created_nodes,
                   created_links, link_attempt>>

\* PipeWireRuntime::link_monitor_to_headphones followed by the two
\* record_created_link calls of main.rs.  create_stereo_links asks for the FL
\* link, then the FR link; either request can fail or time out, and both
\* fail when the cached sink is no longer on the server.
LinkMonitorToHeadphones ==
    IF get_created_node_id(created_nodes, MonitorMixName) = {}
       \/ get_node_by_name(graph_nodes, Wave3SinkName) = {}
    THEN /\ link_attempt' = "not_found"
         /\ UNCHANGED <<server_links, created_links>>
    ELSE \E mix \in get_created_node_id(created_nodes, MonitorMixName),
            sink \in get_node_by_name(graph_nodes, Wave3SinkName) :
            LET fl == ServerLink(100 + 2 * device_steps, mix, sink.id, "FL")
                fr == ServerLink(101 + 2 * device_steps, mix, sink.id, "FR")
            IN \/ /\ sink \in server_nodes
                  /\ server_links' = server_links \cup {fl, fr}
                  /\ created_links' =
                         record_created_link(
                             record_created_link(created_links, MonitorLinkKey("FL"), fl.id),
                             MonitorLinkKey("FR"), fr.id)
                  /\ link_attempt' = "ok"
               \/ /\ sink \in server_nodes
                  /\ server_links' = server_links \cup {fl}
                  /\ link_attempt' = "failed"
                  /\ UNCHANGED created_links
               \/ /\ link_attempt' = "failed"
                  /\ UNCHANGED <<server_links, created_links>>

\* GraphEvent::Wave3Detected
HandleWave3Detected ==
    /\ graph_event_rx # <<>>
    /\ Head(graph_event_rx).type = "Wave3Detected"
    /\ graph_event_rx' = Tail(graph_event_rx)
    /\ device_connected' = TRUE
    /\ state' = "Running"
    /\ IF ~contains_key(created_links, MonitorLinkKey("FL"))
       THEN LinkMonitorToHeadphones
       ELSE /\ link_attempt' = "skipped"
            /\ UNCHANGED <<server_links, created_links>>
    /\ UNCHANGED <<server_nodes, graph_nodes, created_nodes, device_steps>>

\* GraphEvent::Wave3Removed
HandleWave3Removed ==
    /\ graph_event_rx # <<>>
    /\ Head(graph_event_rx).type = "Wave3Removed"
    /\ graph_event_rx' = Tail(graph_event_rx)
    /\ device_connected' = FALSE
    /\ state' = "DeviceDisconnected"
    /\ UNCHANGED <<server_nodes, server_links, graph_nodes, created_nodes,
                   created_links, link_attempt, device_steps>>

\* GraphEvent::NodeAdded
HandleNodeAdded ==
    /\ graph_event_rx # <<>>
    /\ Head(graph_event_rx).type = "NodeAdded"
    /\ graph_event_rx' = Tail(graph_event_rx)
    /\ UNCHANGED <<state, device_connected, server_nodes, server_links, graph_nodes,
                   created_nodes, created_links, link_attempt, device_steps>>

\* GraphEvent::NodeRemoved
HandleNodeRemoved ==
    /\ graph_event_rx # <<>>
    /\ Head(graph_event_rx).type = "NodeRemoved"
    /\ graph_event_rx' = Tail(graph_event_rx)
    /\ graph_nodes' = remove_node(graph_nodes, Head(graph_event_rx).id)
    /\ UNCHANGED <<state, device_connected, server_nodes, server_links,
                   created_nodes, created_links, link_attempt, device_steps>>

DeviceNext ==
    \/ \E name \in DeviceNodeNames : ServerAddNode(name)
    \/ \E name \in DeviceNodeNames : ServerRemoveNode(name)
    \/ HandleWave3Detected
    \/ HandleWave3Removed
    \/ HandleNodeAdded
    \/ HandleNodeRemoved

(***************************************************************************)
(* Start-up (daemon/main.rs up to the event loop): channel sinks, mix      *)
(* nodes, volume filters, links, headphone link.  Each phase is one call   *)
(* into the runtime, which stops at its first failing factory request and  *)
(* returns Err; main logs the error and goes on.  The registry listener    *)
(* caches every node the server announces, the daemon's own included;      *)
(* main sleeps 500 ms before it asks for links, so the cache holds them by *)
(* then.                                                                   *)
(***************************************************************************)
\* create_mix_nodes: mix_configs
MixConfigs == <<StreamMixName, MonitorMixName>>

\* create_channel_volume_filters: the names in creation order.
FilterSequence ==
    [i \in 1..(2 * Len(ModelChannelList)) |->
        IF i % 2 = 1 THEN StreamVolNodeName(ModelChannelList[(i + 1) \div 2])
        ELSE MonitorVolNodeName(ModelChannelList[i \div 2])]

ChannelSinkSequence == [i \in 1..Len(ModelChannelList) |-> NodeName(ModelChannelList[i])]

\* The registry before any node was recorded.
EmptyRegistry == [n \in {} |-> 0]

\* The server hands out the next free id.
NextNodeId(nodes) == 1 + Cardinality({n \in nodes : n.id < 20})

\* The nodes the first k requests of a phase create, with the ids they get.
CreatedByPhase(names, k, nodes) ==
    {[id |-> NextNodeId(nodes) + i - 1, name |-> names[i]] : i \in 1..k}

\* for node in &created { graph.record_created_node(node.name, node.id) }
RecordAll(registry, created) ==
    [n \in DOMAIN registry \cup {c.name : c \in created} |->
        IF \E c \in created : c.name = n
        THEN (CHOOSE c \in created : c.name = n).id
        ELSE registry[n]]

\* The device nodes of a machine that has the device plugged in at boot.
BootDeviceNodes ==
    {[id |-> 20, name |-> Wave3SinkName], [id |-> 21, name |-> Wave3SourceName]}

StartupInit ==
    /\ main_pc = "sinks"
    /\ boot_failed = {}
    /\ state = "Initializing"
    /\ device_connected = FALSE
    /\ server_nodes \in {{}, BootDeviceNodes}
    /\ graph_nodes = server_nodes
    /\ graph_event_rx =
           IF server_nodes = {} THEN <<>>
           ELSE <<GraphEventOf("NodeAdded", 20, Wave3SinkName),
                  GraphEventOf("NodeAdded", 21, Wave3SourceName),
                  GraphEventOf("Wave3Detected", 21, Wave3SourceName)>>
    /\ server_links = {}
    /\ created_nodes = EmptyRegistry
    /\ created_links = {}
    /\ link_attempt = "none"
    /\ device_steps = 0

\* One node-creating phase: the first k requests succeed; with k short of
\* the list the next one fails, the call returns Err and nothing is recorded.
NodePhase(pc, names, next) ==
    /\ main_pc = pc
    /\ \E k \in 0..Len(names) :
        LET created == CreatedByPhase(names, k, server_nodes)
        IN /\ server_nodes' = server_nodes \cup created
           /\ graph_nodes' = graph_nodes \cup created
           /\ IF k = Len(names)
              THEN /\ created_nodes' = RecordAll(created_nodes, created)
                   /\ UNCHANGED boot_failed
              ELSE /\ boot_failed' = boot_failed \cup {pc}
                   /\ UNCHANGED created_nodes
    /\ main_pc' = next
    /\ UNCHANGED <<state, device_connected, graph_event_rx, server_links, created_links,
                   link_attempt, device_steps>>

\* pw_runtime.create_channel_sinks(DEFAULT_CHANNELS)
CreateChannelSinks == NodePhase("sinks", ChannelSinkSequence, "mixes")

\* pw_runtime.create_mix_nodes()
CreateMixNodes == NodePhase("mixes", MixConfigs, "filters")

\* pw_runtime.create_channel_volume_filters(DEFAULT_CHANNELS)
CreateChannelVolumeFilters == NodePhase("filters", FilterSequence, "links")

\* NodeInfo::is_undertone_channel: name.starts_with("ut-ch-")
is_undertone_channel(n) ==
    Len(n.name) >= 3 /\ n.name[1] = "ut" /\ n.name[2] = "ch"

\* GraphManager::get_undertone_channels
get_undertone_channels(nodes) == {n \in nodes : is_undertone_channel(n)}

\* base_name = channel_name.strip_prefix("ut-ch-"), then
\* format!("ut-ch-{base_name}-stream-vol") / format!("ut-ch-{base_name}-monitor-vol")
VolNameOf(name, mix) == <<"ut", "ch">> \o SubSeq(name, 3, Len(name)) \o <<mix, "vol">>

\* The four stereo pairs create_channel_to_mix_links_with_filters asks for
\* on behalf of one node of get_undertone_channels: [out, in, key].
LegsOf(n, registry) ==
    LET sv == VolNameOf(n.name, "stream")
        mv == VolNameOf(n.name, "monitor")
    IN {[out |-> n.id, in |-> registry[sv], key |-> n.name \o <<"->">> \o sv],
        [out |-> registry[sv], in |-> registry[StreamMixName],
         key |-> sv \o <<"->", "stream", "mix">>],
        [out |-> n.id, in |-> registry[mv], key |-> n.name \o <<"->">> \o mv],
        [out |-> registry[mv], in |-> registry[MonitorMixName],
         key |-> mv \o <<"->", "monitor", "mix">>]}

StartupLinkId(leg, side) == 1000 + 100 * leg.out + 10 * leg.in + (IF side = "FL" THEN 1 ELSE 2)

LinksOfLegs(legs) ==
    {ServerLink(StartupLinkId(leg, side), leg.out, leg.in, side) : leg \in legs, side \in Sides}

RecordsOfLegs(legs) ==
    {[key |-> leg.key \o <<side>>, id |-> StartupLinkId(leg, side)] : leg \in legs, side \in Sides}

\* pw_runtime.create_channel_to_mix_links_with_filters() and the recording
\* of what it returns.  The nodes of get_undertone_channels are visited in
\* the order of the cache's hash map; a node whose filter names are not in
\* the registry ends the call with NodeNotFound, and the links made for
\* the nodes visited before it stay on the server unrecorded.
CreateChannelLinks ==
    /\ main_pc = "links"
    /\ IF get_created_node_id(created_nodes, StreamMixName) = {}
          \/ get_created_node_id(created_nodes, MonitorMixName) = {}
       THEN UNCHANGED <<server_links, created_links, boot_failed>>
       ELSE LET visible == get_undertone_channels(graph_nodes)
                good == {n \in visible :
                            /\ VolNameOf(n.name, "stream") \in DOMAIN created_nodes
                            /\ VolNameOf(n.name, "monitor") \in DOMAIN created_nodes}
            IN \E visited \in (IF visible = good THEN {good} ELSE SUBSET good) :
                 LET legs == UNION {LegsOf(n, created_nodes) : n \in visited}
                 IN \E made \in SUBSET legs :
                      /\ server_links' = server_links \cup LinksOfLegs(made)
                      /\ created_links' =
                             IF visible = good
                             THEN created_links \cup RecordsOfLegs(made)
                             ELSE created_links
                      /\ boot_failed' =
                             IF made = legs THEN boot_failed
                             ELSE boot_failed \cup {"links"}
    /\ main_pc' = "headphones"
    /\ UNCHANGED <<state, device_connected, graph_event_rx, server_nodes, graph_nodes,
                   created_nodes, link_attempt, device_steps>>

\* if graph.get_node_by_name("wave3-sink").is_some() { link_monitor_to_headphones }
LinkHeadphonesAtBoot ==
    /\ main_pc = "headphones"
    /\ IF get_node_by_name(graph_nodes, Wave3SinkName) # {}
       THEN /\ LinkMonitorToHeadphones
            /\ boot_failed' =
                   IF link_attempt' = "failed" THEN boot_failed \cup {"headphones"}
                   ELSE boot_failed
       ELSE UNCHANGED <<server_links, created_links, link_attempt, boot_failed>>
    /\ main_pc' = "enter"
    /\ UNCHANGED <<state, device_connected, graph_event_rx, server_nodes, graph_nodes,
                   created_nodes, device_steps>>

\* let mut state = DaemonState::Running; let mut device_connected = false;
EnterLoop ==
    /\ main_pc = "enter"
    /\ main_pc' = "loop"
    /\ state' = "Running"
    /\ device_connected' = FALSE
    /\ UNCHANGED <<boot_failed, graph_event_rx, server_nodes, server_links, graph_nodes,
                   created_nodes, created_links, link_attempt, device_steps>>

\* GetDeviceStatus over the state snapshot.
GetDeviceStatus == [connected |-> device_connected]

StartupNext ==
    \/ CreateChannelSinks
    \/ CreateMixNodes
    \/ CreateChannelVolumeFilters
    \/ CreateChannelLinks
    \/ LinkHeadphonesAtBoot
    \/ EnterLoop

(***************************************************************************)
(* The Router: undertone_core::routing.  Names and patterns are kept as    *)
(* their '-'-separated parts, so that starts_with stays a prefix test.     *)
(***************************************************************************)

AppNames == {<<"app">>, <<"app", "test">>, <<"my", "app">>, <<"other">>}
RulePattern == <<"app">>
PatternTypes == {"exact", "prefix", "regex"}
RuleChannels == {"system", "music"}
Priorities == {10, 100}

ModelRules ==
    [pattern : {RulePattern}, pattern_type : PatternTypes, channel : RuleChannels,
     priority : Priorities]

\* regex::Regex::is_match for a literal pattern: the pattern occurs somewhere
\* in the name.
IsMatch(pattern, name) ==
    \E i \in 0..(Len(name) - Len(pattern)) :
        SubSeq(name, i + 1, i + Len(pattern)) = pattern

\* RouteRule::matches
matches(rule, app_name) ==
    CASE rule.pattern_type = "exact" -> app_name = rule.pattern
      [] rule.pattern_type = "prefix" -> IsPrefix(rule.pattern, app_name)
      [] rule.pattern_type = "regex" -> IsMatch(rule.pattern, app_name)

\* The rules in the order they come in.
InsertionOrder(rules) == rules

\* sorted_rules.sort_by(|a, b| b.priority.cmp(&a.priority)): a stable sort,
\* highest priority first.
RECURSIVE SortByPriority(_)
SortByPriority(rules) ==
    IF rules = <<>> THEN <<>>
    ELSE LET i == CHOOSE i \in 1..Len(rules) :
                     /\ \A j \in 1..Len(rules) : rules[j].priority <= rules[i].priority
                     /\ \A j \in 1..(i - 1) : rules[j].priority < rules[i].priority
         IN <<rules[i]>>
            \o SortByPriority(SubSeq(rules, 1, i - 1) \o SubSeq(rules, i + 1, Len(rules)))

\* for rule in &sorted_rules { if rule.matches(name) { return rule.channel } }:
\* <<channel>> of the first matching rule, <<>> when the scan ends.
FirstMatch(sorted_rules, name) ==
    LET hits == {i \in 1..Len(sorted_rules) : matches(sorted_rules[i], name)}
    IN IF hits = {} THEN <<>>
       ELSE <<sorted_rules[CHOOSE i \in hits : \A j \in hits : i <= j].channel>>

\* A Router that never looks at the binary name.
find_channel_by_app_name(app_name, binary_name, rules) ==
    LET by_app == FirstMatch(SortByPriority(rules), app_name)
    IN IF by_app # <<>> THEN by_app[1] ELSE "system"

\* A Router that scans the binary name before the app name.
find_channel_binary_first(app_name, binary_name, rules) ==
    LET sorted_rules == SortByPriority(rules)
        by_app == FirstMatch(sorted_rules, app_name)
        by_binary == IF binary_name = <<>> THEN <<>>
                     ELSE FirstMatch(sorted_rules, binary_name[1])
    IN IF by_binary # <<>> THEN by_binary[1]
       ELSE IF by_app # <<>> THEN by_app[1]
       ELSE "system"

\* find_channel_for_app; binary_name is <<>> for None and <<b>> for Some(b).
find_channel_for_app(app_name, binary_name, rules) ==
    LET sorted_rules == SortByPriority(rules)
        by_app == FirstMatch(sorted_rules, app_name)
        by_binary == IF binary_name = <<>> THEN <<>>
                     ELSE FirstMatch(sorted_rules, binary_name[1])
    IN IF by_app # <<>> THEN by_app[1]
       ELSE IF by_binary # <<>> THEN by_binary[1]
       ELSE "system"

\* No call of the Router is under way.
RouterIdle == [app |-> <<"other">>, binary |-> <<>>, rules |-> <<>>, result |-> "none"]

RouterInit ==
    \E app \in AppNames, binary \in {<<>>} \cup {<<b>> : b \in AppNames},
       n \in 0..MaxRules :
        \E rules \in [1..n -> ModelRules] :
            router = [app |-> app, binary |-> binary, rules |-> rules, result |-> "none"]

RouterCall ==
    /\ router.result = "none"
    /\ router' = [router EXCEPT
                     !.result = find_channel_for_app(router.app, router.binary, router.rules)]

(***************************************************************************)
(* App discovery: handle_global announcing a node and the ClientAppeared   *)
(* branch of the event loop.                                               *)
(***************************************************************************)

\* The nodes the server announces: node.name, media.class, application.name
\* and application.process.binary (<<>> when the property is absent).
AnnouncedNodes ==
    [name : {<<"client">>, <<"ut", "client">>},
     media_class : {"Stream/Output/Audio", "Audio/Sink"},
     application_name : {<<>>, <<<<"app">>>>, <<<<"other">>>>},
     binary_name : {<<>>, <<<<"app", "test">>>>, <<<<"other">>>>}]

\* The command part as CommandInit leaves it, with the loaded rules drawn
\* (all of one priority: the order of the scan is the Router's affair).
DiscoveryInit ==
    /\ channels = [c \in ModelChannels |-> SeedChannelState]
    /\ db_channel_state = [c \in ModelChannels |-> SeedChannelState]
    /\ \E n \in 0..(MaxRules - 1) :
          routes \in [1..n -> {r \in ModelRules : r.priority = 100}]
    /\ db_app_routes = {routes[i] : i \in 1..Len(routes)}
    /\ broadcast = <<>>
    /\ param_calls = <<>>
    /\ last_request = [type |-> "None"]
    /\ last_response = Ok([success |-> FALSE])
    /\ cmd_count = 0

\* handle_global, ObjectType::Node: the cache gets the node, NodeAdded is
\* sent, and ClientAppeared { id, name: app_name.unwrap_or(name) } when
\* media_class is Stream/Output/Audio and the node is not is_undertone.
AnnounceNode(node) ==
    /\ device_steps < MaxAnnounced
    /\ device_steps' = device_steps + 1
    /\ LET id == 50 + device_steps
           n == [id |-> id, name |-> node.name, media_class |-> node.media_class,
                 application_name |-> node.application_name,
                 binary_name |-> node.binary_name]
           is_undertone == node.name[1] = "ut"
       IN /\ server_nodes' = server_nodes \cup {n}
          /\ graph_nodes' = add_node(graph_nodes, n)
          /\ graph_event_rx' =
                 graph_event_rx \o <<GraphEventOf("NodeAdded", id, node.name)>>
                 \o (IF node.media_class = "Stream/Output/Audio" /\ ~is_undertone
                     THEN <<GraphEventOf("ClientAppeared", id,
                                IF node.application_name # <<>>
                                THEN node.application_name[1] ELSE node.name)>>
                     ELSE <<>>)
    /\ UNCHANGED <<state, device_connected, server_links, created_nodes, created_links,
                   link_attempt, command_vars>>

\* graph.get_node(id).and_then(|n| n.binary_name.clone())
CachedBinaryName(id) ==
    IF get_node(graph_nodes, id) = {} THEN <<>>
    ELSE (CHOOSE n \in get_node(graph_nodes, id) : TRUE).binary_name

\* GraphEvent::ClientAppeared: Router, pw_runtime.route_app_to_channel(id,
\* &target_channel) whose Err is only logged, then the AppDiscovered event.
HandleClientAppeared ==
    /\ graph_event_rx # <<>>
    /\ Head(graph_event_rx).type = "ClientAppeared"
    /\ graph_event_rx' = Tail(graph_event_rx)
    /\ LET ev == Head(graph_event_rx)
           binary_name == CachedBinaryName(ev.id)
           target_channel == find_channel_for_app(ev.name, binary_name, routes)
       IN /\ param_calls' = Append(param_calls,
                 [op |-> "RouteApp", targets |-> {ev.id}, channel |-> target_channel])
          /\ link_attempt' \in {"ok", "failed"}
          /\ broadcast' = Append(broadcast,
                 [event |-> "app_discovered", app_id |-> ev.id, name |-> ev.name,
                  binary |-> binary_name, channel |-> target_channel])
    /\ UNCHANGED <<state, device_connected, server_nodes, server_links, graph_nodes,
                   created_nodes, created_links, device_steps, channels, routes,
                   db_channel_state, db_app_routes, last_request, last_response, cmd_count>>

DiscoveryNext ==
    \/ \E node \in AnnouncedNodes : AnnounceNode(node)
    \/ HandleNodeAdded /\ UNCHANGED command_vars
    \/ HandleClientAppeared

(***************************************************************************)
(* Event subscriptions: the Subscribe / Unsubscribe requests and the event *)
(* branch of IpcServer::handle_client.                                     *)
(***************************************************************************)

\* Some of EventType.
ModelEventTypes == {"device_connected", "app_discovered"}

\* handle_client registers ClientHandle { subscriptions: Vec::new(), .. }.
SubscribeInit ==
    /\ subscriptions = [c \in Clients |-> {}]
    /\ requested = [c \in Clients |-> {}]
    /\ delivered = [c \in Clients |-> <<>>]

SubscribeUntouched ==
    <<task_pc, task_req, client_eof, pending_requests, request_rx, response_rx,
      loop_pc, loop_reply, written, arrived, forwarded>>

\* Method::Subscribe { events } / Method::Unsubscribe { events }: the request
\* is answered {"success": true}; neither handle_request nor the IPC server
\* writes ClientHandle.subscriptions.
ClientSubscribe(c, events, add) ==
    /\ task_pc[c] = "select"
    /\ ~client_eof[c]
    /\ requested' = [requested EXCEPT ![c] = IF add THEN @ \cup events ELSE @ \ events]
    /\ UNCHANGED <<subscriptions, delivered, event_rx, SubscribeUntouched>>

\* event_tx.send(Event { event, .. }): every client task's receiver gets it.
BroadcastEvent(type) ==
    /\ \A c \in Clients : Len(event_rx[c]) + Len(delivered[c]) < MaxBroadcasts
    /\ event_rx' = [c \in Clients |-> Append(event_rx[c], type)]
    /\ UNCHANGED <<subscriptions, requested, delivered, SubscribeUntouched>>

\* Ok(event) = event_rx.recv(), if !client_eof: written to the client when
\* handle.subscriptions.contains(&event.event) || handle.subscriptions.is_empty()
ForwardEvent(c) ==
    /\ task_pc[c] = "select"
    /\ ~client_eof[c]
    /\ event_rx[c] # <<>>
    /\ event_rx' = [event_rx EXCEPT ![c] = Tail(@)]
    /\ delivered' =
           IF Head(event_rx[c]) \in subscriptions[c] \/ subscriptions[c] = {}
           THEN [delivered EXCEPT ![c] = Append(@, Head(event_rx[c]))]
           ELSE delivered
    /\ UNCHANGED <<subscriptions, requested, SubscribeUntouched>>

SubscribeNext ==
    \/ \E c \in Clients, events \in SUBSET ModelEventTypes \ {{}}, add \in BOOLEAN :
          ClientSubscribe(c, events, add)
    \/ \E type \in ModelEventTypes : BroadcastEvent(type)
    \/ \E c \in Clients : ForwardEvent(c)

(***************************************************************************)
(* The daemon state in the event loop: main.rs 189-556.  The loop's match   *)
(* has a branch for every GraphEvent variant; ConnectionEvent delivers the *)
(* two connection-level variants, which the branches at 194-203 handle.    *)
(***************************************************************************)

\* A connection-level graph event reaches graph_event_rx.
ConnectionEvent(type) ==
    /\ device_steps < MaxDeviceSteps
    /\ graph_event_rx' = Append(graph_event_rx, GraphEventOf(type, 0, <<>>))
    /\ device_steps' = device_steps + 1
    /\ UNCHANGED <<state, device_connected, server_nodes, server_links, graph_nodes,
                   created_nodes, created_links, link_attempt>>

\* GraphEvent::Connected => state = Reconciling (reconciliation is a TODO)
\* GraphEvent::Disconnected => state = Error("PipeWire disconnected")
HandleConnectionEvent ==
    /\ graph_event_rx # <<>>
    /\ Head(graph_event_rx).type \in {"Connected", "Disconnected"}
    /\ graph_event_rx' = Tail(graph_event_rx)
    /\ state' = IF Head(graph_event_rx).type = "Connected" THEN "Reconciling" ELSE "Error"
    /\ UNCHANGED <<device_connected, server_nodes, server_links, graph_nodes,
                   created_nodes, created_links, link_attempt, device_steps>>

\* Command::Reconcile: state = Reconciling; info!(..); state = Running, with
\* no await in between, so the loop is next seen in Running.
CommandReconcile ==
    /\ state' = "Running"
    /\ UNCHANGED <<device_connected, graph_event_rx, server_nodes, server_links,
                   graph_nodes, created_nodes, created_links, link_attempt, device_steps>>

\* Command::Shutdown and the shutdown signal: break, the state is left as it is.
LeaveLoop ==
    /\ main_pc' = "exit"
    /\ UNCHANGED <<boot_failed, device_vars, extra_vars>>

LifecycleNext ==
    /\ main_pc = "loop"
    /\ \/ DeviceNext /\ UNCHANGED later_vars
       \/ (\E type \in {"Connected", "Disconnected"} : ConnectionEvent(type))
              /\ UNCHANGED later_vars
       \/ HandleConnectionEvent /\ UNCHANGED later_vars
       \/ CommandReconcile /\ UNCHANGED later_vars
       \/ LeaveLoop

(***************************************************************************)
(* The PipeWire thread and the graph-event channel: run_pipewire_thread    *)
(* dispatches registry callbacks and factory requests on one loop; main    *)
(* reads graph events only in its event loop, and not while it waits for a *)
(* factory response.                                                       *)
(***************************************************************************)

\* What the PipeWire thread and main leave alone in the device part.
PwUntouched ==
    <<state, device_connected, server_nodes, server_links, graph_nodes, created_nodes,
      created_links, link_attempt, boot_failed>>

\* handle_global for a port: event_tx.blocking_send(GraphEvent::PortAdded(..)).
\* On a full channel the thread stays inside blocking_send.
PwHandleGlobal ==
    /\ pw_sending = <<>>
    /\ device_steps < MaxDeviceSteps
    /\ device_steps' = device_steps + 1
    /\ LET e == GraphEventOf("PortAdded", 200 + device_steps, <<>>)
       IN IF Len(graph_event_rx) < EventChannelCapacity
          THEN graph_event_rx' = Append(graph_event_rx, e) /\ UNCHANGED pw_sending
          ELSE pw_sending' = <<e>> /\ UNCHANGED graph_event_rx
    /\ UNCHANGED <<PwUntouched, main_pc, factory_vars>>

\* blocking_send returns once the receiver has made room.
PwSendResumes ==
    /\ pw_sending # <<>>
    /\ Len(graph_event_rx) < EventChannelCapacity
    /\ graph_event_rx' = Append(graph_event_rx, pw_sending[1])
    /\ pw_sending' = <<>>
    /\ UNCHANGED <<PwUntouched, main_pc, device_steps, factory_vars>>

\* The factory receiver attached to the same loop runs only between callbacks.
PwHandleFactory ==
    /\ pw_sending = <<>>
    /\ RuntimeHandle
    /\ UNCHANGED <<PwUntouched, main_pc, device_steps, graph_event_rx, pw_sending>>

\* main calls into PipeWireRuntime (start-up phases, Wave3Detected, commands)
\* and blocks in recv_timeout until the response or the timeout.
MainFactoryCall ==
    /\ \/ \E kind \in FactoryKinds : CallerSend(kind)
       \/ CallerRecv
       \/ CallerTimeout
    /\ UNCHANGED <<PwUntouched, main_pc, device_steps, graph_event_rx, pw_sending>>

\* Start-up ends: main enters its event loop.
MainEntersLoop ==
    /\ main_pc # "loop"
    /\ caller.pc = "idle"
    /\ main_pc' = "loop"
    /\ UNCHANGED <<PwUntouched, device_steps, graph_event_rx, pw_sending, factory_vars>>

\* GraphEvent::PortAdded in the event loop: debug! only.
HandlePortAdded ==
    /\ main_pc = "loop"
    /\ caller.pc = "idle"
    /\ graph_event_rx # <<>>
    /\ Head(graph_event_rx).type = "PortAdded"
    /\ graph_event_rx' = Tail(graph_event_rx)
    /\ UNCHANGED <<PwUntouched, main_pc, device_steps, pw_sending, factory_vars>>

PwThreadNext ==
    \/ PwHandleGlobal
    \/ PwSendResumes
    \/ PwHandleFactory
    \/ MainFactoryCall
    \/ MainEntersLoop
    \/ HandlePortAdded

(***************************************************************************)
(* The pattern cache of a rule: RouteRule.compiled_regex is a             *)
(* OnceLock<Option<Regex>>, filled by the first evaluation of a Regex rule. *)
(* The rule list lives in main's `routes` and find_channel_for_app scans    *)
(* references to its rules, so a rule keeps its cell from call to call.     *)
(***************************************************************************)

\* "(invalid": an unclosed group, which regex::Regex::new rejects.
InvalidPattern == <<"(", "invalid">>

CachedRuleValues ==
    [pattern : {RulePattern, InvalidPattern}, pattern_type : {"exact", "regex"},
     channel : {"music"}, priority : Priorities]

\* The names the rules are evaluated on, the uncompilable pattern's own text
\* among them.
EvaluatedNames == {<<"app">>, <<"other">>, InvalidPattern}

\* regex::Regex::new: <<>> for Err, <<re>> for Ok(re).
Regex_new(pattern) ==
    IF \E i \in 1..Len(pattern) : pattern[i] = "(" THEN <<>> ELSE <<pattern>>

\* A OnceLock that runs its closure on every get_or_init.
AlwaysCompiles(cell) == TRUE

\* OnceLock::get_or_init runs the closure only when the cell is empty.
ClosureRuns(cell) == cell = <<>>

\* compiled_regex.get_or_init(..): the cell afterwards, <<None>> or <<Some(re)>>
\* with the Option as a sequence of length 0 or 1.
get_or_init(cell, pattern) ==
    IF ClosureRuns(cell) THEN <<Regex_new(pattern)>> ELSE cell

\* RouteRule::matches on a rule that carries its cell.
rule_matches(rule, app_name) ==
    IF rule.pattern_type = "regex"
    THEN LET regex == get_or_init(rule.compiled_regex, rule.pattern)[1]
         IN regex # <<>> /\ IsMatch(regex[1], app_name)
    ELSE matches(rule, app_name)

\* The warn!("Invalid regex pattern") lines that n evaluations of a rule write.
RECURSIVE Warnings(_, _)
Warnings(rule, n) ==
    IF n = 0 \/ rule.pattern_type # "regex" THEN 0
    ELSE (IF ClosureRuns(rule.compiled_regex) /\ Regex_new(rule.pattern) = <<>>
          THEN 1 ELSE 0)
         + Warnings([rule EXCEPT
                        !.compiled_regex = get_or_init(rule.compiled_regex, rule.pattern)],
                    n - 1)

\* No rule list is under evaluation.
RegexAtRest ==
    /\ cached_rules = <<>>
    /\ warnings = <<>>
    /\ evaluations = <<>>
    /\ matched = {}
    /\ routed = "none"
    /\ route_calls = 0

\* A rule list as load_routes / RouteRule::new build it: every cell empty.
RegexInit ==
    /\ \E n \in 1..MaxCachedRules :
          \E rules \in [1..n -> CachedRuleValues] :
              cached_rules = [i \in 1..n |->
                                 [pattern |-> rules[i].pattern,
                                  pattern_type |-> rules[i].pattern_type,
                                  channel |-> rules[i].channel,
                                  priority |-> rules[i].priority,
                                  slot |-> i,
                                  compiled_regex |-> <<>>]]
    /\ warnings = [i \in 1..Len(cached_rules) |-> 0]
    /\ evaluations = [i \in 1..Len(cached_rules) |-> 0]
    /\ matched = {}
    /\ routed = "none"
    /\ route_calls = 0

\* How many times each rule is evaluated by one find_channel_for_app call:
\* a scan evaluates the sorted rules up to its first match.
ScanCounts(sorted_rules, app_hits, binary_hits, binary_scanned) ==
    LET Upto(hits) == IF hits = {} THEN Len(sorted_rules)
                      ELSE CHOOSE k \in hits : \A j \in hits : k <= j
        app_last == Upto(app_hits)
        binary_last == IF binary_scanned THEN Upto(binary_hits) ELSE 0
    IN [i \in 1..Len(sorted_rules) |->
           Cardinality({k \in 1..app_last : sorted_rules[k].slot = i})
           + Cardinality({k \in 1..binary_last : sorted_rules[k].slot = i})]

\* find_channel_for_app(app_name, binary_name, &routes): the app-name scan
\* stops at its first match; the binary-name scan runs when it found none.
RouteCached(app_name, binary_name) ==
    /\ route_calls < MaxRouteCalls
    /\ \E sorted_rules \in {SortByPriority(cached_rules)} :
       \E app_hits \in {{k \in 1..Len(sorted_rules) :
                            rule_matches(sorted_rules[k], app_name)}} :
       \E binary_hits \in {IF app_hits = {} /\ binary_name # <<>>
                            THEN {k \in 1..Len(sorted_rules) :
                                     rule_matches(sorted_rules[k], binary_name[1])}
                            ELSE {}} :
       \E times \in {ScanCounts(sorted_rules, app_hits, binary_hits,
                                 app_hits = {} /\ binary_name # <<>>)} :
          LET hits == app_hits \cup binary_hits
              first == CHOOSE k \in hits : \A j \in hits : k <= j
          IN /\ cached_rules' =
                   [i \in 1..Len(cached_rules) |->
                       IF times[i] > 0 /\ cached_rules[i].pattern_type = "regex"
                       THEN [cached_rules[i] EXCEPT
                                !.compiled_regex =
                                    get_or_init(cached_rules[i].compiled_regex,
                                                cached_rules[i].pattern)]
                       ELSE cached_rules[i]]
             /\ warnings' = [i \in 1..Len(cached_rules) |->
                                warnings[i] + Warnings(cached_rules[i], times[i])]
             /\ evaluations' = [i \in 1..Len(cached_rules) |-> evaluations[i] + times[i]]
             /\ matched' = IF hits = {} THEN matched
                           ELSE matched \cup {sorted_rules[first].slot}
             /\ routed' = IF hits = {} THEN "system" ELSE sorted_rules[first].channel
    /\ route_calls' = route_calls + 1

RegexNext ==
    \E app_name \in EvaluatedNames, binary_name \in {<<>>} \cup {<<b>> : b \in EvaluatedNames} :
        RouteCached(app_name, binary_name)

(***************************************************************************)
(* The profile store: Database::save_profile, load_profile and            *)
(* delete_profile over the tables of SCHEMA_V1, seeded by DEFAULT_DATA, and *)
(* the daemon's DeleteProfile request.  Every statement is its own          *)
(* transaction; foreign keys are on, so deleting a profile row deletes its  *)
(* profile_channels and profile_routes rows.                                *)
(***************************************************************************)

\* The columns of table profiles, with the column the queries name added.
ProfilesColumnsWithMixerState ==
    {"id", "name", "description", "is_default", "mixer_state", "created_at", "updated_at"}

\* CREATE TABLE profiles (id, name, description, is_default, created_at,
\* updated_at).
ProfilesColumns == {"id", "name", "description", "is_default", "created_at", "updated_at"}

\* Table channels after DEFAULT_DATA, scaled to two of its five rows.
StoreChannels == {"system", "music"}

\* INSERT OR IGNORE INTO profiles (name, description, is_default) VALUES
\* ('Default', 'Default mixer configuration', TRUE); mixer_state stands for
\* a column value only where the table has that column.
SeededProfiles ==
    {[name |-> "Default", description |-> <<"Default mixer configuration">>,
      is_default |-> TRUE, mixer_state |-> <<>>]}

\* The Profile values handed to save_profile.  Volumes are f32; the store
\* holds them as f64, which represents every f32 exactly, so the value read
\* back is the value written.
DrawnChannels ==
    [name : {"music", "podcast"}, stream_volume : {8}, stream_muted : {FALSE},
     monitor_volume : {6}, monitor_muted : {TRUE}]
DrawnRoutes ==
    [pattern : {"custom-app"}, pattern_type : {"exact"}, channel : {"music"},
     priority : {100}]
DrawnProfiles ==
    [name : {"Default", "gaming"}, description : {<<>>, <<"A test profile">>},
     is_default : BOOLEAN,
     channels : {<<>>} \cup {<<c>> : c \in DrawnChannels},
     routes : {<<>>} \cup {<<r>> : r \in DrawnRoutes},
     mixer : {"custom"}]

\* A statement that names these columns of table profiles prepares.
Prepares(columns) == columns \subseteq ProfilesColumns

\* serde_json::to_string(&profile.mixer) and the reading back:
\* mixer_json.and_then(|json| from_str(&json).ok()).unwrap_or_default().
to_string(mixer) == <<"json", mixer>>
from_str(mixer_json) ==
    IF mixer_json # <<>> /\ mixer_json[1] = "json" THEN mixer_json[2] ELSE "default"

\* The rows of a table as the Vec a query_map collects, for at most one row.
Collect(rows) == IF rows = {} THEN <<>> ELSE <<CHOOSE r \in rows : TRUE>>

\* Database::save_profile; the store afterwards and Ok or Err.
save_profile(profile) ==
    IF ~Prepares({"name", "description", "is_default", "mixer_state", "updated_at"})
    THEN [profiles |-> profiles, profile_channels |-> profile_channels,
          profile_routes |-> profile_routes, saved |-> "Err"]
    ELSE [profiles |->
              {p \in profiles : p.name # profile.name}
              \cup {[name |-> profile.name, description |-> profile.description,
                     is_default |-> profile.is_default,
                     mixer_state |-> to_string(profile.mixer)]},
          profile_channels |->
              {c \in profile_channels : c.profile # profile.name}
              \cup {[profile |-> profile.name, name |-> profile.channels[i].name,
                     stream_volume |-> profile.channels[i].stream_volume,
                     stream_muted |-> profile.channels[i].stream_muted,
                     monitor_volume |-> profile.channels[i].monitor_volume,
                     monitor_muted |-> profile.channels[i].monitor_muted] :
                        i \in {j \in 1..Len(profile.channels) :
                                  profile.channels[j].name \in StoreChannels}},
          profile_routes |->
              {r \in profile_routes : r.profile # profile.name}
              \cup {[profile |-> profile.name, pattern |-> profile.routes[i].pattern,
                     pattern_type |-> profile.routes[i].pattern_type,
                     channel |-> profile.routes[i].channel,
                     priority |-> profile.routes[i].priority] :
                        i \in {j \in 1..Len(profile.routes) :
                                  profile.routes[j].channel \in StoreChannels}},
          saved |-> "Ok"]

\* Database::load_profile: <<>> for Ok(None), <<P>> for Ok(Some(P)).  A
\* query_row that fails for any reason is turned into None by .ok().
load_profile(name) ==
    IF \/ ~Prepares({"id", "name", "description", "is_default", "mixer_state"})
       \/ \A p \in profiles : p.name # name
    THEN <<>>
    ELSE LET row == CHOOSE p \in profiles : p.name = name
         IN <<[name |-> row.name, description |-> row.description,
               is_default |-> row.is_default,
               channels |-> Collect({[name |-> c.name, stream_volume |-> c.stream_volume,
                                      stream_muted |-> c.stream_muted,
                                      monitor_volume |-> c.monitor_volume,
                                      monitor_muted |-> c.monitor_muted] :
                                        c \in {x \in profile_channels : x.profile = name}}),
               routes |-> Collect({[pattern |-> r.pattern, pattern_type |-> r.pattern_type,
                                    channel |-> r.channel, priority |-> r.priority] :
                                      r \in {x \in profile_routes : x.profile = name}}),
               mixer |-> from_str(row.mixer_state)]>>

\* Database::delete_profile: TRUE when a row was deleted.
delete_profile(name) ==
    /\ Prepares({"name", "is_default"})
    /\ \E p \in profiles : p.name = name /\ ~p.is_default

NoReply ==
    [op |-> "none", name |-> "", saved |-> "", loaded |-> <<>>, deleted |-> FALSE,
     success |-> FALSE]

\* The store after the migrations of Database::open.
StoreInit ==
    /\ profiles = SeededProfiles
    /\ profile_channels = {}
    /\ profile_routes = {}
    /\ store_log = <<>>
    /\ last_saved = <<>>
    /\ store_reply = NoReply

SaveProfile(profile) ==
    /\ Len(store_log) < MaxStoreOps
    /\ profiles' = save_profile(profile).profiles
    /\ profile_channels' = save_profile(profile).profile_channels
    /\ profile_routes' = save_profile(profile).profile_routes
    /\ store_log' = Append(store_log, "save_profile")
    /\ last_saved' = <<profile>>
    /\ store_reply' = [NoReply EXCEPT !.op = "save_profile", !.name = profile.name,
                                      !.saved = save_profile(profile).saved]

LoadProfile(name) ==
    /\ Len(store_log) < MaxStoreOps
    /\ store_log' = Append(store_log, "load_profile")
    /\ store_reply' = [NoReply EXCEPT !.op = "load_profile", !.name = name,
                                      !.loaded = load_profile(name)]
    /\ UNCHANGED <<profiles, profile_channels, profile_routes, last_saved>>

DeleteProfile(name) ==
    /\ Len(store_log) < MaxStoreOps
    /\ profiles' = IF delete_profile(name) THEN {p \in profiles : p.name # name}
                   ELSE profiles
    /\ profile_channels' = IF delete_profile(name)
                           THEN {c \in profile_channels : c.profile # name}
                           ELSE profile_channels
    /\ profile_routes' = IF delete_profile(name)
                         THEN {r \in profile_routes : r.profile # name}
                         ELSE profile_routes
    /\ store_log' = Append(store_log, "delete_profile")
    /\ UNCHANGED last_saved
    /\ store_reply' = [NoReply EXCEPT !.op = "delete_profile", !.name = name,
                                      !.deleted = delete_profile(name)]

\* Method::DeleteProfile { name }: handle_request answers {"success": true}
\* with Command::DeleteProfile, and the command branch of the event loop
\* logs "Profile deletion not yet implemented".
RequestDeleteProfile(name) ==
    /\ Len(store_log) < MaxStoreOps
    /\ store_log' = Append(store_log, "DeleteProfile")
    /\ store_reply' = [NoReply EXCEPT !.op = "DeleteProfile", !.name = name,
                                      !.success = TRUE]
    /\ UNCHANGED <<profiles, profile_channels, profile_routes, last_saved>>

StoreNext ==
    \/ \E profile \in DrawnProfiles : SaveProfile(profile)
    \/ \E name \in {"Default", "gaming", "absent"} :
          LoadProfile(name) \/ DeleteProfile(name) \/ RequestDeleteProfile(name)

(***************************************************************************)
(* The graph cache against a server that reuses ids: the PipeWire thread   *)
(* inserts a node into the cache when the server announces it, the event   *)
(* loop removes by id when it handles NodeRemoved { id }.                  *)
(***************************************************************************)

\* The ids the server hands out again once their node is gone.
ReusedIds == {30, 31}

\* The nodes of client applications coming and going.
ClientNodes == {ClientNodeName, <<"mpv">>}

\* handle_global for a node whose id is free in the server:
\* nodes.insert(id, name); graph.add_node(node_info);
\* event_tx.blocking_send(GraphEvent::NodeAdded(node_info)).
ServerAnnounceNode(id, name) ==
    /\ device_steps < MaxDeviceSteps
    /\ \A n \in server_nodes : n.id # id /\ n.name # name
    /\ server_nodes' = server_nodes \cup {[id |-> id, name |-> name]}
    /\ graph_nodes' = add_node(graph_nodes, [id |-> id, name |-> name])
    /\ graph_event_rx' = Append(graph_event_rx, GraphEventOf("NodeAdded", id, name))
    /\ device_steps' = device_steps + 1
    /\ UNCHANGED <<state, device_connected, server_links, created_nodes,
                   created_links, link_attempt>>

MirrorNext ==
    \/ \E id \in ReusedIds, name \in ClientNodes : ServerAnnounceNode(id, name)
    \/ \E name \in ClientNodes : ServerRemoveNode(name)
    \/ HandleNodeAdded
    \/ HandleNodeRemoved

(***************************************************************************)
(* The IPC client: IpcClient::connect spawns a reader task that owns the   *)
(* read half and a clone of the Arc holding the pending map;               *)
(* IpcClient::request registers a oneshot sender under the request id,      *)
(* writes the request and awaits the oneshot receiver.  The handler task of *)
(* the UI awaits each request inside its select loop, so it takes no event  *)
(* from the event channel while a request is outstanding.                   *)
(***************************************************************************)

NoCall == [id |-> 0, status |-> "none"]

\* IpcClient::connect returned: the reader task runs, nothing is pending.
ClientInit ==
    /\ next_id = 1
    /\ pending_tx = {}
    /\ call = NoCall
    /\ oneshot_sent = {}
    /\ socket_in = <<>>
    /\ conn_open = TRUE
    /\ unanswered = {}
    /\ reader_pc = "read"
    /\ client_events = 0

\* IpcClient::request up to rx.await: fetch_add, pending.insert(id, tx),
\* write_all; a write on a closed connection returns the I/O error.
ClientRequest ==
    /\ call.status # "awaiting"
    /\ next_id <= MaxClientCalls
    /\ next_id' = next_id + 1
    /\ pending_tx' = pending_tx \cup {next_id}
    /\ IF conn_open
       THEN /\ call' = [id |-> next_id, status |-> "awaiting"]
            /\ unanswered' = unanswered \cup {next_id}
       ELSE /\ call' = [id |-> next_id, status |-> "io_error"]
            /\ UNCHANGED unanswered
    /\ UNCHANGED <<oneshot_sent, socket_in, conn_open, reader_pc, client_events>>

\* rx.await.map_err(|_| IpcError::ChannelClosed): the receiver resolves with
\* the response once the sender was used, with an error once the sender was
\* dropped unused; the sender lives in the pending map until the reader
\* task removes it.
CallReturns ==
    /\ call.status = "awaiting"
    /\ call.id \in oneshot_sent \/ call.id \notin pending_tx
    /\ call' = [call EXCEPT !.status =
                    IF call.id \in oneshot_sent THEN "response" ELSE "ChannelClosed"]
    /\ UNCHANGED <<next_id, pending_tx, oneshot_sent, socket_in, conn_open, unanswered,
                   reader_pc, client_events>>

\* event_tx.send(event).await in the reader task: completes when the event
\* channel has room.
SendEvent ==
    IF client_events < ClientEventCapacity
    THEN client_events' = client_events + 1 /\ reader_pc' = "read"
    ELSE reader_pc' = "send_event" /\ UNCHANGED client_events

\* read_line returned a line: a response goes to the sender registered
\* under its id, if there is one; an event goes to the event channel.
ReaderReadLine ==
    /\ reader_pc = "read"
    /\ socket_in # <<>>
    /\ socket_in' = Tail(socket_in)
    /\ IF Head(socket_in).kind = "response"
       THEN /\ pending_tx' = pending_tx \ {Head(socket_in).id}
            /\ oneshot_sent' = IF Head(socket_in).id \in pending_tx
                               THEN oneshot_sent \cup {Head(socket_in).id}
                               ELSE oneshot_sent
            /\ UNCHANGED <<reader_pc, client_events>>
       ELSE /\ SendEvent
            /\ UNCHANGED <<pending_tx, oneshot_sent>>
    /\ UNCHANGED <<next_id, call, conn_open, unanswered>>

\* The reader task was suspended in event_tx.send and the channel has room.
ReaderSendResumes ==
    /\ reader_pc = "send_event"
    /\ client_events < ClientEventCapacity
    /\ SendEvent
    /\ UNCHANGED <<next_id, pending_tx, call, oneshot_sent, socket_in, conn_open,
                   unanswered>>

\* read_line returned Ok(0): "Connection closed", break.  The task drops its
\* clone of the Arc; the map and the senders in it stay with the IpcClient.
ReaderEof ==
    /\ reader_pc = "read"
    /\ socket_in = <<>>
    /\ ~conn_open
    /\ reader_pc' = "ended"
    /\ UNCHANGED <<next_id, pending_tx, call, oneshot_sent, socket_in, conn_open, unanswered,
                   client_events>>

\* The handler task's select takes an event: client.events().recv().  The
\* task is inside client.request(..).await while a call is outstanding.
HandlerTakesEvent ==
    /\ call.status # "awaiting"
    /\ client_events > 0
    /\ client_events' = client_events - 1
    /\ UNCHANGED <<next_id, pending_tx, call, oneshot_sent, socket_in, conn_open, unanswered,
                   reader_pc>>

\* The daemon answers a request of this client with a response of that id.
DaemonResponds ==
    /\ conn_open
    /\ \E id \in unanswered :
          /\ unanswered' = unanswered \ {id}
          /\ socket_in' = Append(socket_in, [kind |-> "response", id |-> id])
    /\ UNCHANGED <<next_id, pending_tx, call, oneshot_sent, conn_open, reader_pc,
                   client_events>>

\* The daemon forwards an event to this client.
DaemonSendsEvent ==
    /\ conn_open
    /\ Len(SelectSeq(socket_in, LAMBDA l : l.kind = "event")) + client_events
         < MaxDaemonEvents
    /\ socket_in' = Append(socket_in, [kind |-> "event", id |-> 0])
    /\ UNCHANGED <<next_id, pending_tx, call, oneshot_sent, conn_open, unanswered,
                   reader_pc, client_events>>

\* The daemon closes the connection (its per-client task ends, or it exits).
DaemonCloses ==
    /\ conn_open
    /\ conn_open' = FALSE
    /\ UNCHANGED <<next_id, pending_tx, call, oneshot_sent, socket_in, unanswered,
                   reader_pc, client_events>>

ClientNext ==
    \/ ClientRequest
    \/ CallReturns
    \/ ReaderReadLine
    \/ ReaderSendResumes
    \/ ReaderEof
    \/ HandlerTakesEvent
    \/ DaemonResponds
    \/ DaemonSendsEvent
    \/ DaemonCloses

(***************************************************************************)
(* Ports and links of the registry.  The registry listener of the PipeWire *)
(* thread (runtime.rs handle_global, handle_global_remove) turns every     *)
(* global the server adds or removes into graph events; the event loop     *)
(* (main.rs) takes them one at a time.  Nodes are announced and handled as *)
(* in the discovery part.                                                  *)
(***************************************************************************)
MaxRegistrySteps == 2

\* The nodes a drawn port or link names: the announced client and a sink.
LinkOutputNodes == {50}
LinkInputNodes == {1, 2}

\* GraphManager::add_port / remove_port / get_ports_for_node
add_port(ports, p) == {q \in ports : q.id # p.id} \cup {p}
remove_port(ports, id) == {q \in ports : q.id # id}
get_ports_for_node(ports, node_id) == {p \in ports : p.node_id = node_id}

\* The nodes the server announces while ports and links come and go.
RegistryNodes ==
    {n \in AnnouncedNodes : n.binary_name = <<>> /\ n.application_name # <<<<"other">>>>}

RegistryInit ==
    /\ server_ports = {}
    /\ graph_ports = {}
    /\ graph_links = {}
    /\ removed_globals = {}
    /\ registry_steps = 0

RegistryDeviceUntouched ==
    <<state, device_connected, server_nodes, graph_nodes, created_nodes, created_links,
      link_attempt, device_steps>>

\* handle_global, ObjectType::Port: graph.add_port(port_info) and PortAdded.
AnnouncePort(node_id, direction) ==
    /\ registry_steps < MaxRegistrySteps
    /\ registry_steps' = registry_steps + 1
    /\ LET port_info == [id |-> 60 + registry_steps, node_id |-> node_id,
                         direction |-> direction]
       IN /\ server_ports' = server_ports \cup {port_info}
          /\ graph_ports' = add_port(graph_ports, port_info)
          /\ graph_event_rx' = Append(graph_event_rx,
                 [type |-> "PortAdded", id |-> port_info.id])
    /\ UNCHANGED <<RegistryDeviceUntouched, server_links, graph_links, removed_globals,
                   command_vars>>

\* handle_global, ObjectType::Link: debug!, then LinkCreated is sent.  The
\* arm makes no call on the graph cache.
AnnounceLink(output_node, input_node) ==
    /\ registry_steps < MaxRegistrySteps
    /\ registry_steps' = registry_steps + 1
    /\ LET id == 70 + registry_steps
       IN /\ server_links' = server_links \cup
                 {[id |-> id, output_node |-> output_node, input_node |-> input_node]}
          /\ graph_event_rx' = Append(graph_event_rx,
                 [type |-> "LinkCreated", id |-> id, output_node |-> output_node,
                  input_node |-> input_node])
    /\ UNCHANGED <<RegistryDeviceUntouched, server_ports, graph_ports, graph_links,
                   removed_globals, command_vars>>

\* The globals the server has, with their type.
ServerGlobals ==
    {[id |-> n.id, type |-> "Node"] : n \in server_nodes}
    \cup {[id |-> p.id, type |-> "Port"] : p \in server_ports}
    \cup {[id |-> l.id, type |-> "Link"] : l \in server_links}

\* handle_global_remove: an id of the listener's node map gives Wave3Removed
\* (for "wave3-source") and NodeRemoved { id, name }; every other id gives
\* LinkRemoved { id }.
RemoveGlobal(g) ==
    /\ g \in ServerGlobals
    /\ removed_globals' = removed_globals \cup {g}
    /\ server_nodes' = {n \in server_nodes : n.id # g.id}
    /\ server_ports' = {p \in server_ports : p.id # g.id}
    /\ server_links' = {l \in server_links : l.id # g.id}
    /\ graph_event_rx' =
           IF \E n \in server_nodes : n.id = g.id
           THEN LET name == (CHOOSE n \in server_nodes : n.id = g.id).name
                IN graph_event_rx
                   \o (IF name = <<"wave3-source">>
                       THEN <<[type |-> "Wave3Removed"]>> ELSE <<>>)
                   \o <<GraphEventOf("NodeRemoved", g.id, name)>>
           ELSE Append(graph_event_rx, [type |-> "LinkRemoved", id |-> g.id])
    /\ UNCHANGED <<state, device_connected, graph_nodes, created_nodes, created_links,
                   link_attempt, device_steps, graph_ports, graph_links, registry_steps,
                   command_vars>>

\* The arms of the event loop for the port, link and client-gone events:
\* PortAdded, LinkCreated and LinkRemoved are debug! only, PortRemoved { id }
\* is graph.remove_port(id), ClientDisappeared { id } broadcasts AppRemoved.
HandleRegistryEvent ==
    /\ graph_event_rx # <<>>
    /\ Head(graph_event_rx).type \in
           {"PortAdded", "PortRemoved", "LinkCreated", "LinkRemoved", "ClientDisappeared"}
    /\ graph_event_rx' = Tail(graph_event_rx)
    /\ LET ev == Head(graph_event_rx)
       IN /\ graph_ports' = IF ev.type = "PortRemoved"
                            THEN remove_port(graph_ports, ev.id) ELSE graph_ports
          /\ broadcast' = IF ev.type = "ClientDisappeared"
                          THEN Append(broadcast,
                                   [event |-> "app_removed", app_id |-> ev.id])
                          ELSE broadcast
    /\ UNCHANGED <<RegistryDeviceUntouched, server_links, server_ports, graph_links,
                   removed_globals, registry_steps, channels, routes, db_channel_state,
                   db_app_routes, param_calls, last_request, last_response, cmd_count>>

\* The event loop takes one graph event.
RegistryLoopStep ==
    \/ HandleNodeAdded /\ UNCHANGED <<command_vars, registry_vars>>
    \/ HandleNodeRemoved /\ UNCHANGED <<command_vars, registry_vars>>
    \/ HandleClientAppeared /\ UNCHANGED registry_vars
    \/ HandleRegistryEvent

RegistryNext ==
    \/ \E node \in RegistryNodes : AnnounceNode(node) /\ UNCHANGED registry_vars
    \/ \E d \in {"in", "out"} : \E n \in LinkOutputNodes : AnnouncePort(n, d)
    \/ \E o \in LinkOutputNodes : \E i \in LinkInputNodes : AnnounceLink(o, i)
    \/ \E g \in ServerGlobals : RemoveGlobal(g)
    \/ RegistryLoopStep

\* Nothing was requested of the runtime, sent to a client or read from one.
ObservedAtRest ==
    /\ param_result = "none"
    /\ response_log = <<>>
    /\ invalid_lines = [c \in Clients |-> <<>>]

(***************************************************************************)
(* Volume and mute requests against a Created-Objects Registry that may    *)
(* lack volume filters (start-up goes on when a filter could not be        *)
(* created), with the result of set_node_volume / set_node_mute, which the *)
(* command branch only logs.                                               *)
(***************************************************************************)
VolumeMethods ==
    {m \in Methods : m.type \in {"GetChannel", "SetChannelVolume", "SetChannelMute"}}

\* The registry after a start-up that created every node, or one whose
\* create_channel_volume_filters returned Err: no filter is recorded then.
AbsentFilters ==
    {{}, {FilterName(c, mix) : c \in ModelChannels, mix \in Mixes}}

VolumeRegistries ==
    {[n \in StartupNodeNames \ missing |-> StartupRegistry[n]] : missing \in AbsentFilters}

\* The request branch for a volume or mute request; result is what the
\* runtime returns when the branch calls it (Ok, or Err: error! only).
HandleVolumeRequest(method, result) ==
    /\ HandleIpcRequest(method)
    /\ param_result' = IF param_calls' # param_calls THEN result ELSE "none"
    /\ UNCHANGED <<response_log, invalid_lines>>

VolumeNext ==
    \E method \in VolumeMethods : \E result \in {"ok", "failed"} :
        HandleVolumeRequest(method, result)

(***************************************************************************)
(* Requests that read and write the mixer state, from the per-client tasks *)
(* through the request channel to the request branch of the event loop     *)
(* (daemon/main.rs): handle_request on a snapshot, response_tx.send(..)     *)
(* .await, then the command.  The branch is one piece of the loop's task:   *)
(* the select is polled again only when the branch has run to its end.      *)
(***************************************************************************)
MaxRwRequests == 3

RwMethods == {"GetChannel", "SetVolume0", "SetVolume6", "SetMute"}

\* The request a method name of this part stands for.
RwRequest(key) ==
    CASE key = "GetChannel" -> [type |-> "GetChannel", name |-> "music"]
      [] key = "SetVolume0" -> [type |-> "SetChannelVolume", channel |-> "music",
                                mix |-> "stream", volume |-> 0]
      [] key = "SetVolume6" -> [type |-> "SetChannelVolume", channel |-> "music",
                                mix |-> "stream", volume |-> 6]
      [] key = "SetMute" -> [type |-> "SetChannelMute", channel |-> "music",
                             mix |-> "stream", muted |-> TRUE]

\* The loop polls its select while a branch is between its response and its
\* command.
PollsWhileApplying(pc) == pc \in {"select", "applying"}

\* The loop polls its select: no branch is running.
PollsSelect(pc) == pc = "select"

\* response_tx.send(response).await of the request branch: the response is
\* in the client's channel, or the loop is suspended until there is room.
RwSendResponse(req) ==
    /\ loop_reply' = req
    /\ IF Len(response_rx[req.client]) < ResponseChannelCapacity
       THEN /\ response_rx' = [response_rx EXCEPT ![req.client] =
                                 Append(@, [id |-> req.id])]
            /\ response_log' = Append(response_log,
                   [client |-> req.client, method |-> req.method,
                    response |-> handle_request(RwRequest(req.method), channels).response])
            /\ loop_pc' = "applying"
       ELSE /\ loop_pc' = "replying"
            /\ UNCHANGED <<response_rx, response_log>>

RwTasksUntouched ==
    <<task_pc, task_req, client_eof, pending_requests, event_rx, written, arrived,
      forwarded>>

\* The select branch on request_rx.recv(), up to the response.
RwHandleRequest ==
    /\ PollsSelect(loop_pc)
    /\ request_rx # <<>>
    /\ request_rx' = Tail(request_rx)
    /\ RwSendResponse(Head(request_rx))
    /\ UNCHANGED <<RwTasksUntouched, command_vars>>

\* The loop was suspended in response_tx.send.
RwReplyResumes ==
    /\ loop_pc = "replying"
    /\ Len(response_rx[loop_reply.client]) < ResponseChannelCapacity
    /\ RwSendResponse(loop_reply)
    /\ UNCHANGED <<RwTasksUntouched, request_rx, command_vars>>

\* The rest of the branch: the command handle_request returned is applied.
RwApplyCommand ==
    /\ loop_pc = "applying"
    /\ LET r == handle_request(RwRequest(loop_reply.method), channels)
       IN /\ last_request' = RwRequest(loop_reply.method)
          /\ last_response' = r.response
          /\ ApplyCommand(r.command)
    /\ loop_pc' = "select"
    /\ loop_reply' = NoRequest
    /\ UNCHANGED <<RwTasksUntouched, request_rx, response_rx, response_log, cmd_count>>

ReadWriteNext ==
    \/ /\ RequestsRead < MaxRwRequests
       /\ \E c \in Clients : \E key \in RwMethods :
              TaskReadRequest(c, key) /\ UNCHANGED <<command_vars, response_log>>
    \/ \E c \in Clients : TaskSendResumes(c) /\ UNCHANGED <<command_vars, response_log>>
    \/ \E c \in Clients : TaskWriteResponse(c) /\ UNCHANGED <<command_vars, response_log>>
    \/ RwHandleRequest
    \/ RwReplyResumes
    \/ RwApplyCommand

(***************************************************************************)
(* The IPC part with the invalid lines a client sends put on record: for   *)
(* each one, how many request lines the task had read from the client      *)
(* before it, and whether the line is text that is no Request ("text") or  *)
(* holds bytes that are not UTF-8 ("bytes"): read_line reads into a String *)
(* and returns Err(InvalidData) for those.                                 *)
(***************************************************************************)
MaxInvalidLines == 1

InvalidLinesRead == SumLen(invalid_lines, Clients)

\* read_line returned Err: error!, break; the task leaves its loop,
\* unregisters the client and drops the connection.
TaskReadError(c) ==
    /\ task_pc[c] = "select"
    /\ ~client_eof[c]
    /\ task_pc' = [task_pc EXCEPT ![c] = "done"]
    /\ UNCHANGED <<task_req, client_eof, pending_requests, request_rx, response_rx,
                   event_rx, loop_pc, loop_reply, written, arrived, forwarded>>

\* handle_client, the read branch for a line that is not valid JSON: the
\* Ok(_) arm with serde_json::from_str returning Err, or the Err(e) arm.
TaskReadsInvalidLine(c, kind) ==
    /\ InvalidLinesRead < MaxInvalidLines
    /\ IF kind = "text" THEN TaskReadInvalid(c) ELSE TaskReadError(c)
    /\ invalid_lines' = [invalid_lines EXCEPT ![c] =
                            Append(@, [after |-> Len(arrived[c]), kind |-> kind])]

IpcLinesNext ==
    \/ IpcNext /\ UNCHANGED invalid_lines
    \/ \E c \in Clients : \E kind \in {"text", "bytes"} : TaskReadsInvalidLine(c, kind)

(***************************************************************************)
(* Specifications.  Each one runs one part of the daemon from the state    *)
(* after start-up and leaves the other parts where start-up left them.     *)
(***************************************************************************)
\* No reconciliation has been asked for.
ReconcileAtRest ==
    /\ desired = <<>>
    /\ cache_nodes = {}
    /\ cache_links = {}
    /\ rec_actions = <<>>
    /\ rec_first = <<>>
    /\ rec_stage = "idle"

\* The parts below the Router are in their initial states.
MorePartsAtRest ==
    /\ RegexAtRest
    /\ StoreInit
    /\ ClientInit
    /\ RegistryInit
    /\ ObservedAtRest

\* Everything but the parts below the Router, as start-up leaves it.
EarlierPartsAtRest ==
    /\ FactoryInit /\ IpcInit /\ CommandInit /\ ReconcileAtRest /\ DeviceInit
    /\ main_pc = "loop" /\ boot_failed = {} /\ pw_sending = <<>>
    /\ SubscribeInit /\ router = RouterIdle
earlier_vars ==
    <<factory_vars, ipc_vars, command_vars, reconcile_vars, device_vars, startup_vars,
      pw_sending, subscribe_vars, router>>

\* main is in its event loop, start-up met no failure and the later parts
\* are in their initial states.
LaterPartsAtRest ==
    /\ main_pc = "loop"
    /\ boot_failed = {}
    /\ pw_sending = <<>>
    /\ SubscribeInit
    /\ router = RouterIdle
    /\ MorePartsAtRest

InitFactory == FactoryInit /\ IpcInit /\ CommandInit /\ ReconcileAtRest /\ DeviceInit
               /\ LaterPartsAtRest
NextFactory ==
    FactoryNext /\ UNCHANGED <<ipc_vars, command_vars, reconcile_vars, device_vars,
                            later_vars>>
SpecFactory == InitFactory /\ [][NextFactory]_vars

InitIpc == FactoryInit /\ IpcInit /\ CommandInit /\ ReconcileAtRest /\ DeviceInit
               /\ LaterPartsAtRest
NextIpc ==
    IpcNext /\ UNCHANGED <<factory_vars, command_vars, reconcile_vars, device_vars,
                          later_vars>>
SpecIpc == InitIpc /\ [][NextIpc]_vars

\* The tokio runtime polls a task that is ready: a per-client task whose
\* select has a ready branch other than the client's input runs it, and so
\* does the event loop.  What the clients and the audio server send is not
\* under any fairness.
IpcTaskStep(c) ==
    /\ TaskSendResumes(c) \/ TaskWriteResponse(c) \/ TaskForwardEvent(c)
    /\ UNCHANGED <<factory_vars, command_vars, reconcile_vars, device_vars, later_vars>>
IpcLoopStep ==
    /\ LoopHandleRequest \/ LoopReplyResumes
    /\ UNCHANGED <<factory_vars, command_vars, reconcile_vars, device_vars, later_vars>>
SpecIpcFair ==
    /\ InitIpc
    /\ [][NextIpc]_vars
    /\ \A c \in Clients : WF_vars(IpcTaskStep(c))
    /\ WF_vars(IpcLoopStep)

InitCommand == FactoryInit /\ IpcInit /\ CommandInit /\ ReconcileAtRest /\ DeviceInit
               /\ LaterPartsAtRest
NextCommand ==
    CommandNext /\ UNCHANGED <<factory_vars, ipc_vars, reconcile_vars, device_vars,
                              later_vars>>
SpecCommand == InitCommand /\ [][NextCommand]_vars

InitReconcile == FactoryInit /\ IpcInit /\ CommandInit /\ ReconcileInit /\ DeviceInit
               /\ LaterPartsAtRest
NextReconcile ==
    ReconcileNext /\ UNCHANGED <<factory_vars, ipc_vars, command_vars, device_vars,
                                later_vars>>
SpecReconcile == InitReconcile /\ [][NextReconcile]_vars

InitDevice == FactoryInit /\ IpcInit /\ CommandInit /\ ReconcileAtRest /\ DeviceInit
               /\ LaterPartsAtRest
NextDevice ==
    DeviceNext /\ UNCHANGED <<factory_vars, ipc_vars, command_vars, reconcile_vars,
                             later_vars>>
SpecDevice == InitDevice /\ [][NextDevice]_vars

NextLifecycle ==
    LifecycleNext /\ UNCHANGED <<factory_vars, ipc_vars, command_vars, reconcile_vars>>
SpecLifecycle == InitDevice /\ [][NextLifecycle]_vars

InitStartup ==
    FactoryInit /\ IpcInit /\ CommandInit /\ ReconcileAtRest /\ StartupInit
                /\ pw_sending = <<>> /\ SubscribeInit /\ router = RouterIdle
                /\ MorePartsAtRest
NextStartup ==
    StartupNext /\ UNCHANGED <<factory_vars, ipc_vars, command_vars, reconcile_vars,
                              extra_vars>>

InitPwThread ==
    FactoryInit /\ IpcInit /\ CommandInit /\ ReconcileAtRest /\ StartupInit
                /\ graph_event_rx = <<>> /\ pw_sending = <<>> /\ SubscribeInit
                /\ router = RouterIdle /\ MorePartsAtRest
NextPwThread ==
    PwThreadNext /\ UNCHANGED <<ipc_vars, command_vars, reconcile_vars, subscribe_vars,
                               router, more_vars>>

NextSubscribe ==
    SubscribeNext /\ UNCHANGED <<factory_vars, command_vars, reconcile_vars, device_vars,
                                startup_vars, pw_sending, router, more_vars>>
SpecSubscribe == InitIpc /\ [][NextSubscribe]_vars

InitRouter ==
    FactoryInit /\ IpcInit /\ CommandInit /\ ReconcileAtRest /\ DeviceInit
                /\ main_pc = "loop" /\ boot_failed = {} /\ pw_sending = <<>>
                /\ SubscribeInit /\ RouterInit /\ MorePartsAtRest
NextRouter ==
    RouterCall /\ UNCHANGED <<factory_vars, ipc_vars, command_vars, reconcile_vars,
                             device_vars, startup_vars, pw_sending, subscribe_vars,
                             more_vars>>
SpecRouter == InitRouter /\ [][NextRouter]_vars

InitRegex ==
    EarlierPartsAtRest /\ RegexInit /\ StoreInit /\ ClientInit /\ RegistryInit
                       /\ ObservedAtRest
NextRegex ==
    RegexNext /\ UNCHANGED <<earlier_vars, store_vars, client_vars, registry_vars,
                             observed_vars>>
SpecRegex == InitRegex /\ [][NextRegex]_vars

InitStore ==
    EarlierPartsAtRest /\ RegexAtRest /\ StoreInit /\ ClientInit /\ RegistryInit
                       /\ ObservedAtRest
NextStore ==
    StoreNext /\ UNCHANGED <<earlier_vars, regex_vars, client_vars, registry_vars,
                             observed_vars>>
SpecStore == InitStore /\ [][NextStore]_vars

NextMirror ==
    MirrorNext /\ UNCHANGED <<factory_vars, ipc_vars, command_vars, reconcile_vars,
                             later_vars>>
SpecMirror == InitDevice /\ [][NextMirror]_vars

\* The reader task and the handler task are tokio tasks, polled when ready;
\* the daemon answers a request it has received unless it closes first.
InitClient ==
    EarlierPartsAtRest /\ RegexAtRest /\ StoreInit /\ ClientInit /\ RegistryInit
                       /\ ObservedAtRest
NextClient ==
    ClientNext /\ UNCHANGED <<earlier_vars, regex_vars, store_vars, registry_vars,
                              observed_vars>>
ClientTaskStep ==
    /\ ReaderReadLine \/ ReaderSendResumes \/ ReaderEof \/ CallReturns \/ DaemonResponds
    /\ UNCHANGED <<earlier_vars, regex_vars, store_vars, registry_vars, observed_vars>>
SpecClient == InitClient /\ [][NextClient]_vars /\ WF_vars(ClientTaskStep)

InitDiscovery ==
    FactoryInit /\ IpcInit /\ ReconcileAtRest /\ DeviceInit /\ LaterPartsAtRest
                /\ DiscoveryInit
NextDiscovery ==
    DiscoveryNext /\ UNCHANGED <<factory_vars, ipc_vars, reconcile_vars, later_vars>>
SpecDiscovery == InitDiscovery /\ [][NextDiscovery]_vars

InitIpcLines == InitIpc
NextIpcLines ==
    IpcLinesNext /\ UNCHANGED <<factory_vars, command_vars, reconcile_vars, device_vars,
                                startup_vars, pw_sending, subscribe_vars, router,
                                regex_vars, store_vars, client_vars, registry_vars,
                                param_result, response_log>>
SpecIpcLines == InitIpcLines /\ [][NextIpcLines]_vars

InitReadWrite == InitCommand
NextReadWrite ==
    ReadWriteNext /\ UNCHANGED <<factory_vars, reconcile_vars, device_vars, startup_vars,
                                 pw_sending, subscribe_vars, router, regex_vars,
                                 store_vars, client_vars, registry_vars, param_result,
                                 invalid_lines>>
SpecReadWrite == InitReadWrite /\ [][NextReadWrite]_vars

InitVolume ==
    /\ FactoryInit /\ IpcInit /\ CommandInit /\ ReconcileAtRest /\ LaterPartsAtRest
    /\ state = "Running"
    /\ device_connected = FALSE
    /\ graph_event_rx = <<>>
    /\ server_nodes = {}
    /\ server_links = {}
    /\ graph_nodes = {}
    /\ created_nodes \in VolumeRegistries
    /\ created_links = {}
    /\ link_attempt = "none"
    /\ device_steps = 0
NextVolume ==
    VolumeNext /\ UNCHANGED <<factory_vars, ipc_vars, reconcile_vars, device_vars,
                              startup_vars, pw_sending, subscribe_vars, router,
                              regex_vars, store_vars, client_vars, registry_vars>>
SpecVolume == InitVolume /\ [][NextVolume]_vars

\* The event loop takes a queued graph event in the end.
InitRegistry ==
    /\ InitDiscovery
    /\ Len(routes) <= 1
    /\ \A i \in 1..Len(routes) : routes[i].channel = "music"
RegistryOthers ==
    <<factory_vars, ipc_vars, reconcile_vars, startup_vars, pw_sending, subscribe_vars,
      router, regex_vars, store_vars, client_vars, observed_vars>>
NextRegistry == RegistryNext /\ UNCHANGED RegistryOthers
SpecRegistry ==
    InitRegistry /\ [][NextRegistry]_vars
                 /\ WF_vars(RegistryLoopStep /\ UNCHANGED RegistryOthers)
SpecPwThread == InitPwThread /\ [][NextPwThread]_vars
SpecStartup == InitStartup /\ [][NextStartup]_vars

(***************************************************************************)
(* Properties.                                                             *)
(***************************************************************************)

\* C1: the response a caller of the Server Runtime acts on is the response
\* the runtime produced for that same request, also after an earlier request
\* timed out at the caller and was completed afterwards.  (SpecFactory)
C1_ResponseBelongsToRequest ==
    \A a \in acted : a.result # "Timeout" => a.resp_for = a.req

\* A caller acted on the response of an earlier request that had timed out.
C1_StaleResponseTaken ==
    \E a \in acted : a.result # "Timeout" /\ a.resp_for < a.req

\* The event loop waits for room in client c's response channel while c's
\* task waits for room in the request channel: neither can move again.
AnswerBlockedForever(c) ==
    /\ loop_pc = "replying"
    /\ loop_reply.client = c
    /\ Len(response_rx[c]) = ResponseChannelCapacity
    /\ task_pc[c] = "sending"
    /\ Len(request_rx) = RequestChannelCapacity

\* C2: for any single client the responses are written in the order its
\* requests arrived, one per request, and no request is left without its
\* response, whatever the interleaving with other clients and with graph
\* events.  (SpecIpc)
C2_EveryRequestAnsweredInOrder ==
    \A c \in Clients :
        /\ IsPrefix(ResponseIds(c), arrived[c])
        /\ ~AnswerBlockedForever(c)

\* C3: after EOF the per-client task exits only when no request is
\* outstanding, so every request forwarded before EOF has had its response
\* written before the task exits.  (SpecIpc)
C3_ExitOnlyWhenDrained ==
    \A c \in Clients :
        (task_pc[c] = "done" /\ client_eof[c]) =>
            /\ pending_requests[c] = 0
            /\ \A i \in 1..Len(forwarded[c]) :
                   \E j \in 1..Len(ResponseIds(c)) : ResponseIds(c)[j] = forwarded[c][i]

\* A one-shot client whose task has exited after two answered requests.
C3_Witness ==
    \E c \in Clients :
        /\ task_pc[c] = "done"
        /\ client_eof[c]
        /\ Len(forwarded[c]) = 2
        /\ Len(ResponseIds(c)) = 2

\* clamp(v, 0, 1) as the claim states it, in tenths.
ClampedToUnit(v) == IF v < 0 THEN 0 ELSE IF v > VolumeOne THEN VolumeOne ELSE v

MixVolume(ch, mix) == IF mix = "stream" THEN ch.stream_volume ELSE ch.monitor_volume

\* C4: every stored volume is within [0,1] in every reachable state, and a
\* SetChannelVolume request with value v stores clamp(v,0,1) and returns
\* that same value.  (SpecCommand)
C4_VolumeClamped ==
    /\ \A c \in DOMAIN channels, m \in Mixes :
           /\ MixVolume(channels[c], m) \in 0..VolumeOne
           /\ MixVolume(db_channel_state[c], m) \in 0..VolumeOne
    /\ (last_request.type = "SetChannelVolume" /\ last_request.channel \in DOMAIN channels) =>
           /\ last_response =
                  Ok([success |-> TRUE, volume |-> ClampedToUnit(last_request.volume)])
           /\ MixVolume(channels[last_request.channel], last_request.mix)
                  = ClampedToUnit(last_request.volume)

\* A volume below 0 was requested and 0 was stored and returned.
C4_Witness ==
    /\ last_request.type = "SetChannelVolume"
    /\ last_request.channel = "music"
    /\ last_request.mix = "monitor"
    /\ last_request.volume < 0
    /\ channels["music"].monitor_volume = 0
    /\ last_response.body.volume = 0

\* C5: a SetChannelVolume, SetChannelMute or SetAppRoute request naming a
\* channel that does not exist is answered with error 404 "Channel not
\* found: <name>" and changes nothing: no event, no store write, no runtime
\* request, in-memory channels and rules unchanged.  (SpecCommand)
C5_UnknownChannelRejected ==
    [][(/\ cmd_count' # cmd_count
        /\ last_request'.type \in {"SetChannelVolume", "SetChannelMute", "SetAppRoute"}
        /\ last_request'.channel \notin DOMAIN channels)
       => (/\ last_response' = [ok |-> FALSE, code |-> 404,
                                message |-> <<"Channel not found: ",
                                              last_request'.channel>>]
           /\ UNCHANGED <<channels, routes, db_channel_state, db_app_routes,
                          broadcast, param_calls>>)]_vars

\* A rule for a channel that does not exist was asked for and refused.
C5_Witness ==
    /\ last_request.type = "SetAppRoute"
    /\ last_request.channel = "unknown"
    /\ last_response.ok = FALSE
    /\ last_response.code = 404

\* C6: after an accepted SetChannelVolume or SetChannelMute command the
\* store's state of the channel equals the in-memory channel state.
\* (SpecCommand)
C6_StoreMatchesMemory ==
    \A c \in DOMAIN channels : db_channel_state[c] = channels[c]

\* C7: if reconcile(D, G) = A and every action of A is applied to G, then
\* reconcile(D, G.A) returns the empty action list.  (SpecReconcile)
C7_ReconcileIdempotent ==
    rec_stage = "rechecked" => rec_actions = <<>>

\* The links of the desired topology over the cached graph: the pairs of the
\* channels, the mix pair, and monitor-mix -> target sink when the target
\* device is present.
DesiredLinkPairs(chs, nodes) ==
    TopologyPairs(chs)
    \cup {<<MonitorMixName, t.name>> : t \in find_wave3_sink(nodes)}

LinkCached(nodes, links, out, in, side) ==
    \E o \in get_node_by_name(nodes, out), i \in get_node_by_name(nodes, in) :
        \E l \in links : l.output_node = o.id /\ l.input_node = i.id /\ l.side = side

\* C8: reconcile emits a CreateLink for every FL and FR link of the
\* desired topology that is missing from the graph while both of its
\* endpoint nodes exist, also when only the FR link of a pair is missing.
\* (SpecReconcile)
C8_MissingLinksRequested ==
    rec_stage = "reconciled" =>
        \A p \in DesiredLinkPairs(desired, cache_nodes), side \in Sides :
            (/\ get_node_by_name(cache_nodes, p[1]) # {}
             /\ get_node_by_name(cache_nodes, p[2]) # {}
             /\ ~LinkCached(cache_nodes, cache_links, p[1], p[2], side))
            => \E i \in 1..Len(rec_actions) :
                   rec_actions[i] = CreateLinkAction(p[1], p[2], side)

\* C9: the action list returned by reconcile holds no DestroyNode or
\* DestroyLink whose target is a foreign node or link.  (SpecReconcile)
C9_NoForeignDestroy ==
    \A i \in 1..Len(rec_actions) :
        /\ rec_actions[i].type = "DestroyNode" =>
               \A n \in cache_nodes : n.id = rec_actions[i].id => n.managed
        /\ rec_actions[i].type = "DestroyLink" =>
               \A l \in cache_links : l.id = rec_actions[i].id => l.managed

\* reconcile returned actions for a graph that holds a foreign node and a
\* foreign link.
C9_Witness ==
    /\ rec_stage = "reconciled"
    /\ rec_actions # <<>>
    /\ \E n \in cache_nodes : ~n.managed
    /\ \E l \in cache_links : ~l.managed

\* The target sink is on the server and is what the cache holds under its
\* name.
TargetSinkPresent ==
    /\ \E n \in server_nodes : n.name = Wave3SinkName
    /\ get_node_by_name(graph_nodes, Wave3SinkName)
           = {n \in server_nodes : n.name = Wave3SinkName}

\* Both monitor-mix -> target-sink links exist on the server and are the ones
\* recorded in the registry.
MonitorLinksInPlace(live, recorded) ==
    \A side \in Sides :
        \E l \in live :
            /\ l.side = side
            /\ l.output_node \in get_created_node_id(created_nodes, MonitorMixName)
            /\ \E n \in server_nodes : n.name = Wave3SinkName /\ l.input_node = n.id
            /\ [key |-> MonitorLinkKey(side), id |-> l.id] \in recorded

\* C10: whenever TargetDeviceDetected is handled while the target sink is
\* present, in particular when the device reappears after having
\* disappeared, the state is Running and, unless a link request failed, the two
\* monitor-mix -> target-sink links exist and are recorded.  (SpecDevice)
C10_LinksRestoredOnDetect ==
    [][(/\ graph_event_rx # <<>>
        /\ Head(graph_event_rx).type = "Wave3Detected"
        /\ graph_event_rx' = Tail(graph_event_rx)
        /\ TargetSinkPresent
        /\ link_attempt' # "failed")
       => (/\ state' = "Running"
           /\ MonitorLinksInPlace(server_links', created_links'))]_vars


(***************************************************************************)
(* Start-up (SpecStartup).                                                 *)
(***************************************************************************)

\* A cold start: main has reached its event loop, no factory request
\* failed on the way and the audio server holds no target device.
ColdStartDone ==
    /\ main_pc = "loop"
    /\ boot_failed = {}
    /\ get_node_by_name(server_nodes, Wave3SinkName) = {}

\* The intra-topology of the scenario: per channel, sink -> each filter and
\* each filter -> its mix; and stream-mix -> stream-out.
ColdStartPairs ==
    UNION {{<<NodeName(c), StreamVolNodeName(c)>>,
            <<StreamVolNodeName(c), StreamMixName>>,
            <<NodeName(c), MonitorVolNodeName(c)>>,
            <<MonitorVolNodeName(c), MonitorMixName>>} : c \in ModelChannels}
    \cup {<<StreamMixName, StreamOutName>>}

ServerLinked(pair, side) ==
    \E o \in get_node_by_name(server_nodes, pair[1]),
       i \in get_node_by_name(server_nodes, pair[2]) :
       \E l \in server_links :
          l.output_node = o.id /\ l.input_node = i.id /\ l.side = side

\* C11: after a cold start with no factory failure and no target device
\* the server holds exactly one sink per channel, two filters per channel
\* and the three mix nodes (stream-mix, stream-out, monitor-mix), every
\* intra-topology link including the two stream-mix -> stream-out links,
\* the state is Running and GetDeviceStatus reports connected = false.
C11_ColdStartTopology ==
    ColdStartDone =>
        /\ {n.name : n \in server_nodes} = StartupNodeNames \cup {StreamOutName}
        /\ Cardinality(server_nodes) = Cardinality(StartupNodeNames) + 1
        /\ \A pair \in ColdStartPairs : \A side \in Sides : ServerLinked(pair, side)
        /\ state = "Running"
        /\ GetDeviceStatus.connected = FALSE

\* A cold start has completed.
C11_Witness == ColdStartDone /\ state = "Running"

\* C12: in every Running state every channel has exactly one sink, one
\* stream filter and one monitor filter recorded as created, whatever
\* factory requests failed during start-up.
C12_RunningOwnsChannelNodes ==
    state = "Running" =>
        \A c \in ModelChannels :
            /\ get_created_node_id(created_nodes, NodeName(c)) # {}
            /\ get_created_node_id(created_nodes, StreamVolNodeName(c)) # {}
            /\ get_created_node_id(created_nodes, MonitorVolNodeName(c)) # {}

\* Running was entered after a failed start-up phase.
C12_Witness == state = "Running" /\ boot_failed # {}


(***************************************************************************)
(* The daemon state machine (SpecLifecycle).                               *)
(***************************************************************************)

StateEdges ==
    {<<"Initializing", "WaitingForDevice">>, <<"WaitingForDevice", "CreatingNodes">>,
     <<"CreatingNodes", "Running">>,
     <<"Running", "DeviceDisconnected">>, <<"DeviceDisconnected", "Running">>,
     <<"Running", "Reconciling">>, <<"Reconciling", "Running">>,
     <<"Running", "ShuttingDown">>, <<"DeviceDisconnected", "ShuttingDown">>,
     <<"Reconciling", "ShuttingDown">>}
    \cup {<<s, "Error">> : s \in {"Initializing", "WaitingForDevice", "CreatingNodes",
                                  "Running", "DeviceDisconnected", "Reconciling"}}

RemovalPending(n) ==
    \E i \in 1..Len(graph_event_rx) :
        graph_event_rx[i].type = "NodeRemoved" /\ graph_event_rx[i].id = n.id

\* C15: once NodeRemoved(id) has been handled, lookups of that node by its
\* id and by its former name return absent until the server announces a
\* node with that id or name again: a lookup only ever returns a node the
\* server holds or one whose NodeRemoved is still to be handled.
C15_RemovedNodeAbsent ==
    /\ \A id \in 20..(20 + MaxDeviceSteps) :
          \A n \in get_node(graph_nodes, id) : n \in server_nodes \/ RemovalPending(n)
    /\ \A name \in DeviceNodeNames :
          \A n \in get_node_by_name(graph_nodes, name) :
              n \in server_nodes \/ RemovalPending(n)

\* A node was announced, removed and its NodeRemoved handled: the cache is
\* empty again.
C15_Witness ==
    /\ device_steps >= 2
    /\ server_nodes = {}
    /\ graph_nodes = {}
    /\ graph_event_rx = <<>>


(***************************************************************************)
(* The PipeWire thread (SpecPwThread).                                     *)
(***************************************************************************)

\* C16: publishing a graph event never blocks the PipeWire thread on the
\* event loop draining the graph-event channel: whenever a factory request
\* is pending the thread is not held inside blocking_send, start-up
\* included.
C16_FactoryNeverWaitsForDrain ==
    factory_tx # <<>> => pw_sending = <<>>

\* A factory request is pending during start-up while graph events are queued.
C16_Witness ==
    /\ factory_tx # <<>>
    /\ main_pc # "loop"
    /\ Len(graph_event_rx) = EventChannelCapacity


(***************************************************************************)
(* Event subscriptions (SpecSubscribe).                                    *)
(***************************************************************************)

\* C17: an event is forwarded to a client if and only if the subscription
\* set the client established with its own Subscribe and Unsubscribe
\* requests is empty or contains the event's type.
C17_ForwardedIffSubscribed ==
    [][\A c \in Clients :
         (event_rx[c] # <<>> /\ event_rx'[c] = Tail(event_rx[c]))
         => ((delivered'[c] = Append(delivered[c], Head(event_rx[c])))
             <=> (requested[c] = {} \/ Head(event_rx[c]) \in requested[c]))]_vars

\* A client that subscribed to one event type has an event of another type
\* waiting in its receiver.
C17_Witness ==
    \E c \in Clients :
        /\ requested[c] = {"app_discovered"}
        /\ event_rx[c] # <<>>
        /\ Head(event_rx[c]) = "device_connected"


(***************************************************************************)
(* The Router (SpecRouter).                                                *)
(***************************************************************************)

RouterReturned == router.result # "none"

\* The positions of the rules that match a name.
MatchingRules(name) == {i \in 1..Len(router.rules) : matches(router.rules[i], name)}

\* The name the Router's answer comes from: the app name when a rule
\* matches it, else the binary name when there is one and a rule matches it.
ScannedName ==
    IF MatchingRules(router.app) # {} THEN <<router.app>>
    ELSE IF router.binary # <<>> /\ MatchingRules(router.binary[1]) # {} THEN router.binary
    ELSE <<>>

\* Among the rules matching the name: highest priority, and the earliest in
\* insertion order among those.
Winner(name) ==
    CHOOSE i \in MatchingRules(name) :
        /\ \A j \in MatchingRules(name) : router.rules[j].priority <= router.rules[i].priority
        /\ \A j \in MatchingRules(name) :
              j < i => router.rules[j].priority < router.rules[i].priority

\* C19 as stated: the Router returns `system` if and only if no rule
\* matched the app name and no rule matched the binary name.
C19_SystemIffNoMatch ==
    RouterReturned => (router.result = "system" <=> ScannedName = <<>>)

\* C19: the Router returns `system` if and only if no rule matched the app
\* name and none matched the binary name, or the rule it selected names
\* the channel `system` itself.
C19_SystemIffNoMatchOrSystemRule ==
    RouterReturned =>
        (router.result = "system"
            <=> (\/ ScannedName = <<>>
                 \/ router.rules[Winner(ScannedName[1])].channel = "system"))

\* The Router answered from the binary name, with a rule for another channel.
C19_Witness ==
    /\ RouterReturned
    /\ MatchingRules(router.app) = {}
    /\ ScannedName # <<>>
    /\ router.result = "music"

\* C20: among the rules matching the scanned name the Router returns the
\* channel of the one with the highest priority and, among equals, of the
\* first in insertion order, wherever the other rules stand in the list.
C20_HighestPriorityFirstMatch ==
    (RouterReturned /\ ScannedName # <<>>)
        => router.result = router.rules[Winner(ScannedName[1])].channel

\* Three rules match; the winner is neither first nor last in the list and
\* ties with a later rule for another channel.
C20_Witness ==
    /\ RouterReturned
    /\ Len(router.rules) = 3
    /\ MatchingRules(router.app) = {1, 2, 3}
    /\ router.rules[1].priority < router.rules[2].priority
    /\ router.rules[2].priority = router.rules[3].priority
    /\ router.rules[2].channel # router.rules[3].channel
    /\ router.rules[1].channel # router.rules[2].channel

\* C21: when a rule matches the app name the Router's answer is the one the
\* app-name scan gives, whatever the binary name is and whatever rules
\* match it; the binary name decides only when no rule matches the app name
\* and a binary name was given.
C21_AppNameTakesPrecedence ==
    RouterReturned =>
        IF MatchingRules(router.app) # {}
        THEN router.result = router.rules[Winner(router.app)].channel
        ELSE IF router.binary = <<>> \/ MatchingRules(router.binary[1]) = {}
        THEN router.result = "system"
        ELSE router.result = router.rules[Winner(router.binary[1])].channel

\* A rule matches the app name while a rule of higher priority, for another
\* channel, matches the binary name.
C21_Witness ==
    /\ RouterReturned
    /\ MatchingRules(router.app) # {}
    /\ router.binary # <<>>
    /\ \E j \in MatchingRules(router.binary[1]) :
          /\ router.rules[j].priority > router.rules[Winner(router.app)].priority
          /\ router.rules[j].channel # router.result


(***************************************************************************)
(* App discovery (SpecDiscovery).                                          *)
(***************************************************************************)

\* The node the server announced under an id.
Announced(id) == CHOOSE n \in server_nodes : n.id = id

\* A ClientAppeared event is being handled in this step.
ClientAppearedHandled ==
    /\ graph_event_rx # <<>>
    /\ Head(graph_event_rx).type = "ClientAppeared"
    /\ graph_event_rx' = Tail(graph_event_rx)

\* C18: a ClientAppeared event stands for an announced Stream/Output/Audio
\* node that is not managed; handling it asks the Router with the
\* application name and the node's binary name, requests the routing of the
\* client to the chosen channel and emits app_discovered carrying exactly
\* that channel, also when the link request failed; the loop goes on.
C18_AppDiscovered ==
    [][ClientAppearedHandled =>
         LET ev == Head(graph_event_rx)
             node == Announced(ev.id)
             chosen == find_channel_for_app(ev.name, node.binary_name, routes)
         IN /\ node.media_class = "Stream/Output/Audio"
            /\ node.name[1] # "ut"
            /\ ev.name = IF node.application_name # <<>>
                         THEN node.application_name[1] ELSE node.name
            /\ param_calls' = Append(param_calls,
                   [op |-> "RouteApp", targets |-> {ev.id}, channel |-> chosen])
            /\ Len(broadcast') = Len(broadcast) + 1
            /\ broadcast'[Len(broadcast')].event = "app_discovered"
            /\ broadcast'[Len(broadcast')].app_id = ev.id
            /\ broadcast'[Len(broadcast')].channel = chosen
            /\ main_pc' = "loop"]_vars

\* A client whose binary name alone matched a rule was discovered although
\* its link request failed.
C18_Witness ==
    /\ broadcast # <<>>
    /\ broadcast[Len(broadcast)].event = "app_discovered"
    /\ broadcast[Len(broadcast)].channel = "music"
    /\ broadcast[Len(broadcast)].name = <<"other">>
    /\ link_attempt = "failed"


(***************************************************************************)
(* The pattern cache (SpecRegex).                                          *)
(***************************************************************************)

\* The Regex rules whose pattern does not compile.
InvalidRegexRules ==
    {i \in 1..Len(cached_rules) :
        /\ cached_rules[i].pattern_type = "regex"
        /\ Regex_new(cached_rules[i].pattern) = <<>>}

\* C22: a Regex rule whose pattern does not compile never matches, whatever
\* the input and however often it is evaluated; a rule list made of such
\* rules only routes to `system`; and the compile failure is logged once
\* for the rule, at its first evaluation, and never again.
C22_InvalidRegexNeverMatchesLoggedOnce ==
    /\ \A i \in InvalidRegexRules :
          /\ i \notin matched
          /\ warnings[i] = IF evaluations[i] > 0 THEN 1 ELSE 0
          /\ evaluations[i] > 0 => cached_rules[i].compiled_regex = << <<>> >>
    /\ InvalidRegexRules = 1..Len(cached_rules) => routed \in {"none", "system"}

\* A rule with an uncompilable pattern was evaluated in two calls, three
\* times or more, and the last call returned `system`.
C22_Witness ==
    /\ route_calls = 2
    /\ routed = "system"
    /\ \E i \in InvalidRegexRules : evaluations[i] >= 3

(***************************************************************************)
(* The profile store (SpecStore).                                          *)
(***************************************************************************)

\* The profiles that carry the default flag.
DefaultProfiles == {p \in profiles : p.is_default}

\* C23: the default profile cannot be deleted: a DeleteProfile request that
\* names it is answered success = false and the profile stays in the store;
\* delete_profile on it returns false and load_profile still returns it.
C23_DefaultProfileCannotBeDeleted ==
    (\E p \in DefaultProfiles : p.name = store_reply.name)
        => /\ store_reply.op = "DeleteProfile" => ~store_reply.success
           /\ store_reply.op = "delete_profile"
                 => ~store_reply.deleted /\ load_profile(store_reply.name) # <<>>

\* A DeleteProfile request named the default profile.
C23_Witness ==
    /\ store_reply.op = "DeleteProfile"
    /\ \E p \in DefaultProfiles : p.name = store_reply.name

C25_SaveLoadRoundTrip ==
    (/\ store_reply.op = "load_profile"
     /\ Len(store_log) >= 2
     /\ store_log[Len(store_log) - 1] = "save_profile"
     /\ last_saved[1].name = store_reply.name)
        => store_reply.loaded = last_saved

\* The profile of the store's own round-trip test went through save_profile
\* and load_profile.
C25_Witness ==
    /\ store_reply.op = "load_profile"
    /\ store_log = <<"save_profile", "load_profile">>
    /\ last_saved[1].name = store_reply.name
    /\ last_saved[1].channels # <<>> /\ last_saved[1].channels[1].name = "music"
    /\ last_saved[1].routes # <<>>

(***************************************************************************)
(* The graph cache under id reuse (SpecMirror).                            *)
(***************************************************************************)

\* C26: once every emitted graph event has been handled the cache holds
\* every node the server has announced and not removed; in particular a
\* NodeRemoved { id } handled after the server announced a new node under
\* the same id does not delete the newer node.
C26_CacheMirrorsServer ==
    graph_event_rx = <<>> => \A n \in server_nodes : n \in graph_nodes

\* A NodeRemoved { id } is still queued while the server has announced a new
\* node under that id.
C26_Witness ==
    \E i \in 1..Len(graph_event_rx) :
        /\ graph_event_rx[i].type = "NodeRemoved"
        /\ \E n \in server_nodes :
              n.id = graph_event_rx[i].id /\ n.name # graph_event_rx[i].name

(***************************************************************************)
(* The per-client task after EOF (SpecIpcFair).                            *)
(***************************************************************************)

\* C27: once a client has reached EOF its task eventually leaves the loop
\* and unregisters the client, also when forwarding a request failed or a
\* forwarded request is never answered.
C27_TaskExitsAfterEof ==
    \A c \in Clients : client_eof[c] ~> (task_pc[c] = "done")

\* A client is at EOF with a request counted as pending that was never
\* forwarded, the event loop having stopped, and nothing left to deliver.
C27_Witness ==
    \E c \in Clients :
        /\ client_eof[c]
        /\ task_pc[c] = "select"
        /\ pending_requests[c] > 0
        /\ loop_pc = "stopped"
        /\ Len(forwarded[c]) < Len(arrived[c])
        /\ response_rx[c] = <<>>

(***************************************************************************)
(* The IPC client (SpecClient).                                            *)
(***************************************************************************)

\* C28: every request call returns: with the response that carries the
\* request's id, or with an error once the connection is closed or the
\* reader task has ended; no call stays pending after the connection is
\* gone.
C28_RequestCallReturns ==
    (call.status = "awaiting") ~> (call.status # "awaiting")

\* A call is outstanding, the daemon has closed the connection and the
\* reader task has ended.
C28_Witness ==
    /\ call.status = "awaiting"
    /\ ~conn_open
    /\ reader_pc = "ended"

(***************************************************************************)
(* Reconnection (SpecLifecycle).                                           *)
(***************************************************************************)

C30_CreatedLinkRecordedIndividually ==
    \A l \in server_links :
        l.side = "FL"
            => \E r \in created_links : r.key = MonitorLinkKey("FL") /\ r.id = l.id

\* The FL link of the headphone pair exists in the server, its FR link does
\* not, and the attempt was reported as failed.
C30_Witness ==
    /\ link_attempt = "failed"
    /\ \E l \in server_links :
          /\ l.side = "FL"
          /\ \A m \in server_links :
                ~(m.side = "FR" /\ m.output_node = l.output_node
                                /\ m.input_node = l.input_node)

\* Index set of a sequence of broadcasts or events.
Indices(q) == 1..Len(q)

\* C31: every link the server has announced and not removed is in the graph
\* cache, so has_link(output_node, input_node) is true for it.  (SpecRegistry)
C31_AnnouncedLinkInCache ==
    \A l \in server_links : has_link(graph_links, l.output_node, l.input_node)

\* The event loop has taken the LinkCreated of a link the server still has,
\* and the cache holds no link.
C31_Witness ==
    /\ graph_event_rx = <<>>
    /\ server_links # {}
    /\ graph_links = {}

\* C32: once the events of a removed port are taken, no port lookup of the
\* cache returns it; and a queued LinkRemoved { id } carries the id of a
\* removed link.  (SpecRegistry)
C32_RemovedPortLeavesCache ==
    /\ \A i \in Indices(graph_event_rx) :
           graph_event_rx[i].type = "LinkRemoved"
           => [id |-> graph_event_rx[i].id, type |-> "Link"] \in removed_globals
    /\ graph_event_rx = <<>>
       => \A g \in removed_globals :
              g.type = "Port" => \A p \in graph_ports : p.id # g.id

\* A port was removed, every event is taken, and the lookup of the ports of
\* its node still returns it.
C32_Witness ==
    /\ graph_event_rx = <<>>
    /\ \E g \in removed_globals :
           /\ g.type = "Port"
           /\ \E n \in LinkOutputNodes :
                  \E p \in get_ports_for_node(graph_ports, n) : p.id = g.id

AppBroadcast(event, id) ==
    \E i \in Indices(broadcast) :
        broadcast[i].event = event /\ broadcast[i].app_id = id

\* C33: when app_discovered was broadcast for a client and the server has
\* removed the client's node, app_removed is broadcast for it in the end.
\* (SpecRegistry)
C33_AppRemovedFollows ==
    \A id \in 50..(50 + MaxAnnounced) :
        (AppBroadcast("app_discovered", id)
         /\ [id |-> id, type |-> "Node"] \in removed_globals)
        ~> AppBroadcast("app_removed", id)

\* The event loop has taken every event of a discovered and removed client
\* and app_removed was not broadcast.
C33_Witness ==
    /\ graph_event_rx = <<>>
    /\ \E id \in 50..(50 + MaxAnnounced) :
           /\ AppBroadcast("app_discovered", id)
           /\ [id |-> id, type |-> "Node"] \in removed_globals
           /\ ~AppBroadcast("app_removed", id)

\* The step handles an accepted request of the given type.
Accepted(type) ==
    /\ cmd_count' = cmd_count + 1
    /\ last_request'.type = type
    /\ last_response'.ok

\* C34: an accepted SetChannelVolume { c, m, v } changes the volume of c in
\* mix m and nothing else of the channel list, and the only request it issues
\* is on the volume-filter node of (c, m).  (SpecCommand)
C34_VolumeChangesOnlyItsMix ==
    [][Accepted("SetChannelVolume") =>
        LET c == last_request'.channel
            m == last_request'.mix
            other == IF m = "stream" THEN "monitor" ELSE "stream"
        IN /\ \A d \in DOMAIN channels \ {c} : channels'[d] = channels[d]
           /\ channels'[c].stream_muted = channels[c].stream_muted
           /\ channels'[c].monitor_muted = channels[c].monitor_muted
           /\ m = "stream" => /\ channels'[c].stream_volume = Clamp(last_request'.volume)
                              /\ channels'[c].monitor_volume = channels[c].monitor_volume
           /\ m = "monitor" => /\ channels'[c].monitor_volume = Clamp(last_request'.volume)
                               /\ channels'[c].stream_volume = channels[c].stream_volume
           /\ IsPrefix(param_calls, param_calls')
           /\ \A i \in (Len(param_calls) + 1)..Len(param_calls') :
                  /\ param_calls'[i].op = "SetNodeVolume"
                  /\ param_calls'[i].node_id = created_nodes[FilterName(c, m)]
                  /\ param_calls'[i].node_id # created_nodes[NodeName(c)]
                  /\ param_calls'[i].node_id # created_nodes[FilterName(c, other)]
    ]_vars

\* The stream volume of music was set and the request went to its stream
\* filter, the monitor volume being as seeded.
C34_Witness ==
    /\ last_request.type = "SetChannelVolume"
    /\ last_request.channel = "music" /\ last_request.mix = "stream"
    /\ last_response.ok
    /\ channels["music"].stream_volume = 6
    /\ channels["music"].monitor_volume = VolumeOne
    /\ param_calls # <<>>
    /\ param_calls[Len(param_calls)].node_id = created_nodes[FilterName("music", "stream")]

\* The value an accepted volume or mute request carries, as (volume, muted)
\* of the mix it names, read off a channel.
MixState(ch, mix) ==
    IF mix = "stream" THEN <<ch.stream_volume, ch.stream_muted>>
    ELSE <<ch.monitor_volume, ch.monitor_muted>>

\* C35: an accepted SetChannelVolume / SetChannelMute updates the in-memory
\* state and broadcasts the change event whether or not the filter node of
\* (channel, mix) is in the Created-Objects Registry and whatever the
\* parameter request returns; without the filter no request is sent.
\* (SpecVolume)
C35_FilterNotFoundIsWarning ==
    [][Accepted("SetChannelVolume") \/ Accepted("SetChannelMute") =>
        LET c == last_request'.channel
            m == last_request'.mix
            before == MixState(channels[c], m)
        IN /\ MixState(channels'[c], m) =
                 IF last_request'.type = "SetChannelVolume"
                 THEN <<Clamp(last_request'.volume), before[2]>>
                 ELSE <<before[1], last_request'.muted>>
           /\ Len(broadcast') = Len(broadcast) + 1
           /\ broadcast'[Len(broadcast')].channel = c
           /\ broadcast'[Len(broadcast')].mix = m
           /\ broadcast'[Len(broadcast')].event =
                 IF last_request'.type = "SetChannelVolume"
                 THEN "channel_volume_changed" ELSE "channel_mute_changed"
           /\ FilterName(c, m) \notin DOMAIN created_nodes
              => param_calls' = param_calls /\ param_result' = "none"
    ]_vars

\* With no filter in the registry music was muted and its monitor volume
\* set: both values are in memory, both events were sent, no request went
\* to the runtime.
C35_Witness ==
    /\ FilterName("music", "stream") \notin DOMAIN created_nodes
    /\ channels["music"].stream_muted
    /\ channels["music"].monitor_volume = 6
    /\ Len(broadcast) = 2
    /\ param_calls = <<>>
    /\ param_result = "none"

\* The responses sent before the j-th that answered a volume request.
VolumeSetsBefore(j) ==
    {i \in 1..(j - 1) : response_log[i].method \in {"SetVolume0", "SetVolume6"}}

\* C36: a GetChannel answered after the success response of a
\* SetChannelVolume / SetChannelMute was sent, to whichever client, carries
\* the value of the latest such request.  (SpecReadWrite)
C36_ReadYourWrites ==
    \A j \in Indices(response_log) :
        response_log[j].method = "GetChannel" =>
            /\ VolumeSetsBefore(j) # {} =>
                  LET i == CHOOSE k \in VolumeSetsBefore(j) :
                               \A h \in VolumeSetsBefore(j) : h <= k
                  IN response_log[j].response.body.stream_volume =
                         RwRequest(response_log[i].method).volume
            /\ (\E i \in 1..(j - 1) : response_log[i].method = "SetMute") =>
                  response_log[j].response.body.stream_muted

\* Client 1 was answered for SetChannelVolume 6 and then client 2 for
\* GetChannel, which reports the new volume.
C36_Witness ==
    \E i, j \in Indices(response_log) :
        /\ i < j
        /\ response_log[i].method = "SetVolume6" /\ response_log[i].client = 1
        /\ response_log[j].method = "GetChannel" /\ response_log[j].client = 2
        /\ response_log[j].response.body.stream_volume = 6

\* The rules of the in-memory list, as a set.
RuleSet(rs) == {rs[i] : i \in 1..Len(rs)}

\* C37: the in-memory rule list and the store's app_routes hold the same
\* rules (pattern, pattern type, channel, priority), the list has at most one
\* rule per pattern, and a RemoveAppRoute of a pattern without a rule changes
\* neither.  (SpecCommand)
C37_RulesMatchStore ==
    /\ [](/\ RuleSet(routes) = db_app_routes
          /\ \A i, j \in 1..Len(routes) :
                 routes[i].pattern = routes[j].pattern => i = j)
    /\ [][(/\ Accepted("RemoveAppRoute")
           /\ \A r \in db_app_routes : r.pattern # last_request'.app_pattern)
          => UNCHANGED <<routes, db_app_routes>>]_vars

\* The seeded rule of spotify was replaced by one to system, and a
\* RemoveAppRoute of mpv, which has no rule, was handled after it.
C37_Witness ==
    /\ last_request.type = "RemoveAppRoute"
    /\ last_request.app_pattern = "mpv"
    /\ routes = <<[pattern |-> "spotify", pattern_type |-> "exact",
                   channel |-> "system", priority |-> 100]>>
    /\ db_app_routes = RuleSet(routes)

\* C38: once the event loop is left, on the shutdown signal or a Shutdown
\* command, the daemon is in ShuttingDown.  (SpecLifecycle)
C38_ShutdownEntersShuttingDown ==
    main_pc = "exit" => state = "ShuttingDown"

\* The loop was left with the daemon still Running.
C38_Witness ==
    main_pc = "exit" /\ state = "Running"

\* What a Create action creates: a channel sink, a stream or monitor volume
\* filter, a mix node or a link.
CreatedKind(a) ==
    IF a.type = "CreateLink" THEN "link"
    ELSE IF Len(a.name) = 5 THEN a.name[4]
    ELSE IF a.name[2] = "ch" THEN "sink"
    ELSE "mix"

\* The Create actions of a list, in its order.
Creates(actions) == SelectSeq(actions, LAMBDA a : a.type \in {"CreateSink", "CreateLink"})

\* The place of a kind in the desired-topology list, and in the checks of
\* reconcile.
TopologyPlace(kind) ==
    CASE kind = "sink" -> 1 [] kind = "stream" -> 2 [] kind = "monitor" -> 3
      [] kind = "mix" -> 4 [] kind = "link" -> 5

CheckPlace(kind) ==
    CASE kind = "sink" -> 1 [] kind = "mix" -> 2 [] kind = "stream" -> 3
      [] kind = "monitor" -> 3 [] kind = "link" -> 4

SkippedBy(c) ==
    /\ task_pc'[c] = "select" /\ ~client_eof'[c]
    /\ pending_requests' = pending_requests
    /\ request_rx' = request_rx /\ forwarded' = forwarded
    /\ arrived' = arrived
    /\ response_rx' = response_rx /\ written' = written
    /\ loop_pc' = loop_pc /\ loop_reply' = loop_reply

\* C40: an invalid JSON line is logged and skipped: it does not close the
\* connection, does not change the outstanding-request count, and produces
\* no response and no request to the event loop, so the requests that
\* follow it on the connection are read as before.  (SpecIpcLines)
C40_InvalidLineSkipped ==
    [][\A c \in Clients : invalid_lines'[c] # invalid_lines[c] => SkippedBy(c)]_vars

\* The same for the invalid lines that are text: those are skipped.
InvalidTextLineSkipped ==
    [][\A c \in Clients :
          (/\ invalid_lines'[c] # invalid_lines[c]
           /\ invalid_lines'[c][Len(invalid_lines'[c])].kind = "text") => SkippedBy(c)]_vars

\* Client 1 sent a line that is not UTF-8 while a request of its own was
\* outstanding: its task has ended although the client did not close.
C40_Witness ==
    /\ invalid_lines[1] # <<>>
    /\ invalid_lines[1][1].kind = "bytes"
    /\ task_pc[1] = "done"
    /\ ~client_eof[1]
    /\ pending_requests[1] > 0

\* Client 1 sent an invalid text line after its first request, and its second
\* request, read after that line, was answered.
TextLineThenAnswered ==
    /\ invalid_lines[1] = <<[after |-> 1, kind |-> "text"]>>
    /\ \E i \in 1..Len(written[1]) :
           written[1][i].kind = "response" /\ written[1][i].id = 2
    /\ pending_requests[1] = 0
====
